---- MODULE Spec2Model ----
(***************************************************************************)
(* Model of the report scripts prepare_flourish_data.py,                   *)
(* prepare_flourish_data_not_pivot.py and prepare_flourish_data_timeline.py*)
(* A DataFrame is a sequence of rows, a row a function from column name to *)
(* cell.  Percentages are held in hundredths (6667 is 66.67).              *)
(***************************************************************************)
EXTENDS Integers, Sequences, FiniteSets, TLC

VARIABLES csv, script, df, defined, df_temporal, df_lead_time, df_month, df_adr, call, result

vars == <<csv, script, df, defined, df_temporal, df_lead_time, df_month, df_adr,
          call, result>>

\* ------------------------------------------------------------------ bounds
MaxRecords == 3
MaxScenarioRecords == 4
MaxLeadRecords == 2
MaxDateRecords == 2
MaxLeadTime == 400
MaxTimelineRecords == 3
MaxGroupSize == 32
MaxAdrRecords == 2

\* ------------------------------------------------------------------ cells
\* A missing categorical cell (pandas NaN).
NULL == "NaN"
\* The float that 0/0 gives, and the one n/0 gives for n > 0.
NaN == -1
Inf == -2

Range(s) == {s[i] : i \in 1..Len(s)}

IndexOf(s, x) == CHOOSE i \in 1..Len(s) : s[i] = x

\* A cell of the csv as read: it parses as the number v, or it does not.
RawCell(ok, v) == [ok |-> ok, v |-> v]

\* pd.to_numeric(errors='coerce'): <<v>> for a number, <<>> for NaN.
ToNumeric(cell) == IF cell.ok THEN <<cell.v>> ELSE <<>>

\* fillna with 1 whatever the value given.
FillNaOne(opt, x) == IF opt = <<>> THEN 1 ELSE opt[1]

\* Series.fillna(x)
FillNa(opt, x) == IF opt = <<>> THEN x ELSE opt[1]

\* df['is_canceled'].map({0: 'Not canceled', 1: 'Canceled'})
StatusMap(v) ==
    IF v = 0 THEN "Not canceled" ELSE IF v = 1 THEN "Canceled" ELSE NULL

\* The same cut off after the second decimal instead of rounded.
Round2Truncated(num, den) ==
    IF den = 0 THEN (IF num = 0 THEN NaN ELSE Inf)
    ELSE (num * 10000) \div den

\* (num / den * 100).round(2), in hundredths; numpy rounds ties to even.
Round2(num, den) ==
    IF den = 0 THEN (IF num = 0 THEN NaN ELSE Inf)
    ELSE LET scaled == num * 10000
             q == scaled \div den
             r == scaled % den
         IN  IF 2 * r > den THEN q + 1
             ELSE IF 2 * r < den THEN q
             ELSE IF q % 2 = 0 THEN q ELSE q + 1

\* ------------------------------------------------------------------ order
\* Every label of the model, in the order Python compares str.
LexOrder ==
    << "+365", "0", "1-7", "16-30", "181-365", "31-90", "8-15", "91-180",
       "A", "A-X", "April", "August", "B", "Canceled", "December", "February",
       "January", "July", "June", "March", "May", "NaN", "Not canceled",
       "November", "October", "September", "Total", "X", "X-X",
       "Y" >>

StrRank(s) == IndexOf(LexOrder, s)

LexLess(a, b) ==
    \E i \in 1..Len(a) : a[i] < b[i] /\ \A j \in 1..(i - 1) : a[j] = b[j]

\* DataFrame.sort_values on several columns: a stable sort of rows by keys,
\* keys[i] being the tuple of sort-column ranks of rows[i].
StableSort(rows, keys) ==
    LET n == Len(rows)
        pos(i) == 1 + Cardinality({j \in 1..n :
                        LexLess(keys[j], keys[i]) \/ (keys[j] = keys[i] /\ j < i)})
    IN  [p \in 1..n |-> rows[CHOOSE i \in 1..n : pos(i) = p]]

\* ------------------------------------------------------------------ groupby
KeyOf(r, cols) == [i \in 1..Len(cols) |-> r[cols[i]]]

RankKey(k) == [i \in 1..Len(k) |-> StrRank(k[i])]

\* groupby(cols, observed=True) with the default dropna=True: the keys are
\* the combinations seen in rows none of whose key cells is missing.
GroupKeys(d, cols) ==
    {KeyOf(d[i], cols) : i \in {j \in 1..Len(d) :
                                  \A c \in 1..Len(cols) : d[j][cols[c]] # NULL}}

\* .size() of one group
GroupSize(d, cols, k) == Cardinality({i \in 1..Len(d) : KeyOf(d[i], cols) = k})

\* .agg(sum) of is_canceled over one group
GroupSum(d, cols, k) ==
    LET idx == {i \in 1..Len(d) : KeyOf(d[i], cols) = k}
        RECURSIVE Sum(_)
        Sum(S) == IF S = {} THEN 0
                  ELSE LET i == CHOOSE x \in S : TRUE
                       IN  d[i]["is_canceled"] + Sum(S \ {i})
    IN  Sum(idx)

\* groupby sorts its keys (sort=True)
SortedKeys(S) ==
    LET pos(k) == 1 + Cardinality({x \in S : LexLess(RankKey(x), RankKey(k))})
    IN  [p \in 1..Cardinality(S) |-> CHOOSE k \in S : pos(k) = p]

MkRow(cols, vals) == [c \in Range(cols) |-> vals[IndexOf(cols, c)]]

\* ------------------------------------------------------------------ tables
\* What a report call gives back: a table, or the exception it raised.
Table(columns, rows) == [error |-> "", columns |-> columns, rows |-> rows]

Raised(exc) == [error |-> exc, columns |-> <<>>, rows |-> <<>>]

NoResult == Table(<<>>, <<>>)

\* DataFrame.rename(columns=mapping), mapping given as an operator
RenameRow(row, Mapping(_)) ==
    [c2 \in {Mapping(c) : c \in DOMAIN row} |->
        row[CHOOSE c \in DOMAIN row : Mapping(c) = c2]]

\* ------------------------------------------------------------------
\* generate_cancellation_csv (prepare_flourish_data.py)

\* col[1].replace(' ', '_') and the metric suffix of a flattened pivot column
FlatName(metric, status) ==
    (IF status = "Not canceled" THEN "Not_canceled" ELSE status)
        \o (IF metric = "Value" THEN "_value" ELSE "_Percentage")

\* The columns ordered status by status instead of counts before shares.
cols_order_by_status ==
    << "Canceled_value", "Canceled_Percentage",
       "Not_canceled_value", "Not_canceled_Percentage" >>

\* Lines 91-94
cols_order ==
    << "Canceled_value", "Not_canceled_value",
       "Canceled_Percentage", "Not_canceled_Percentage" >>

column_mapping(c) ==
    CASE c = "country" -> "Country"
      [] c = "hotel" -> "Hotel"
      [] c = "tipo" -> "Trip Type"
      [] c = "origin" -> "Origin"
      [] c = "Canceled_value" -> "Canceled"
      [] c = "Not_canceled_value" -> "Not Canceled"
      [] c = "Canceled_Percentage" -> "Canceled %"
      [] c = "Not_canceled_Percentage" -> "Not Canceled %"
      [] OTHER -> c

RenameTable(t, Mapping(_)) ==
    Table([i \in 1..Len(t.columns) |-> Mapping(t.columns[i])],
          [i \in 1..Len(t.rows) |-> RenameRow(t.rows[i], Mapping)])

\* Lines 46-51: the table of the call without grouping columns.
CancellationBasic(d, valueName, pctName) ==
    LET keys == SortedKeys(GroupKeys(d, <<"Status">>))
        size(k) == GroupSize(d, <<"Status">>, k)
        RECURSIVE SumTo(_)
        SumTo(n) == IF n = 0 THEN 0 ELSE size(keys[n]) + SumTo(n - 1)
        total == SumTo(Len(keys))
        cols == <<"Status", valueName, pctName>>
    IN  Table(cols,
              [i \in 1..Len(keys) |->
                  MkRow(cols, <<keys[i][1], size(keys[i]),
                                Round2(size(keys[i]), total)>>)])

\* Lines 54-61: one row per observed (Status, group), with its share of the
\* group's size.
CancellationGrouped(d, groupby_cols, valueName, pctName) ==
    LET cols == <<"Status">> \o groupby_cols
        keys == SortedKeys(GroupKeys(d, cols))
        out == cols \o <<valueName, pctName>>
    IN  [i \in 1..Len(keys) |->
            LET k == keys[i]
                value == GroupSize(d, cols, k)
                total == GroupSize(d, groupby_cols, SubSeq(k, 2, Len(k)))
            IN  MkRow(out, k \o <<value, Round2(value, total)>>)]

\* Lines 64-97: pivot_table(index=groupby_cols, columns='Status',
\* values=['Value','Percentage'], aggfunc='first', fill_value=0), the
\* flattening of the column names and the reordering of the columns.
CancellationPivot(grouped, groupby_cols) ==
    LET index == SortedKeys({KeyOf(g, groupby_cols) : g \in Range(grouped)})
        pairs == {<<m, g["Status"]>> : m \in {"Value", "Percentage"},
                                       g \in Range(grouped)}
        flat == {FlatName(p[1], p[2]) : p \in pairs}
        Cell(k, p) ==
            LET hit == {g \in Range(grouped) :
                           KeyOf(g, groupby_cols) = k /\ g["Status"] = p[2]}
            IN  IF hit = {} THEN 0 ELSE (CHOOSE g \in hit : TRUE)[p[1]]
        columns == groupby_cols \o SelectSeq(cols_order, LAMBDA c : c \in flat)
    IN  Table(columns,
              [i \in 1..Len(index) |->
                  [c \in Range(columns) |->
                      IF c \in Range(groupby_cols)
                      THEN index[i][IndexOf(groupby_cols, c)]
                      ELSE Cell(index[i],
                                CHOOSE p \in pairs : FlatName(p[1], p[2]) = c)]])

SumColumn(rows, c) ==
    LET RECURSIVE SumTo(_)
        SumTo(n) == IF n = 0 THEN 0 ELSE rows[n][c] + SumTo(n - 1)
    IN  SumTo(Len(rows))

\* Lines 100-129: the rows with origin = 'Total', summed from the pivoted
\* table; a status column the pivot did not make is a KeyError.
CancellationTotalRows(t, groupby_cols) ==
    LET other_cols == SelectSeq(groupby_cols, LAMBDA c : c # "origin")
        keys == IF other_cols = <<>> THEN << <<>> >>
                ELSE SortedKeys({KeyOf(r, other_cols) : r \in Range(t.rows)})
        members(k) == SelectSeq(t.rows, LAMBDA r : KeyOf(r, other_cols) = k)
        columns == groupby_cols \o cols_order
    IN  [i \in 1..Len(keys) |->
            LET canceled == SumColumn(members(keys[i]), "Canceled_value")
                not_canceled == SumColumn(members(keys[i]), "Not_canceled_value")
                total_bookings == canceled + not_canceled
            IN  [c \in Range(columns) |->
                    CASE c = "origin" -> "Total"
                      [] c = "Canceled_value" -> canceled
                      [] c = "Not_canceled_value" -> not_canceled
                      [] c = "Canceled_Percentage" ->
                             Round2(canceled, total_bookings)
                      [] c = "Not_canceled_Percentage" ->
                             Round2(not_canceled, total_bookings)
                      [] OTHER -> keys[i][IndexOf(other_cols, c)]]]

\* The sort key without the flag that puts the Total rows last.
CancellationSortKeyUnflagged(row, groupby_cols) ==
    IF "origin" \in Range(groupby_cols)
    THEN RankKey(KeyOf(row, SelectSeq(groupby_cols, LAMBDA c : c # "origin")))
            \o <<StrRank(row["origin"])>>
    ELSE RankKey(KeyOf(row, groupby_cols))

\* Lines 132-139: the sort key of a row; Total rows go last.
CancellationSortKey(row, groupby_cols) ==
    IF "origin" \in Range(groupby_cols)
    THEN <<IF row["origin"] = "Total" THEN 1 ELSE 0>>
            \o RankKey(KeyOf(row, SelectSeq(groupby_cols, LAMBDA c : c # "origin")))
            \o <<StrRank(row["origin"])>>
    ELSE RankKey(KeyOf(row, groupby_cols))

SortRows(rows, Key(_)) == StableSort(rows, [i \in 1..Len(rows) |-> Key(rows[i])])

generate_cancellation_csv(d, groupby_cols) ==
    IF groupby_cols = <<>>
    THEN RenameTable(CancellationBasic(d, "Value", "Percentage"), column_mapping)
    ELSE
      LET pivoted == CancellationPivot(
                        CancellationGrouped(d, groupby_cols, "Value", "Percentage"),
                        groupby_cols)
          Key(r) == CancellationSortKey(r, groupby_cols)
      IN  IF "origin" \in Range(groupby_cols)
          THEN IF ~ ({"Canceled_value", "Not_canceled_value"}
                        \subseteq Range(pivoted.columns))
               THEN Raised("KeyError")
               ELSE RenameTable(
                      Table(pivoted.columns,
                            SortRows(pivoted.rows
                                       \o CancellationTotalRows(pivoted, groupby_cols),
                                     Key)),
                      column_mapping)
          ELSE RenameTable(Table(pivoted.columns, SortRows(pivoted.rows, Key)),
                           column_mapping)

\* ------------------------------------------------------------------
\* generate_cancellation_csv_long (prepare_flourish_data_not_pivot.py)

column_mapping_long(c) ==
    CASE c = "country" -> "Country"
      [] c = "hotel" -> "Hotel"
      [] c = "tipo" -> "Trip Type"
      [] c = "origin" -> "Origin"
      [] c = "Status" -> "Status"
      [] c = "count" -> "Count"
      [] c = "percentage" -> "Percentage"
      [] OTHER -> c

\* The Total rows counted without the records whose origin is itself
\* 'Total'.
LongTotalRowsOfOtherOrigins(d, groupby_cols) ==
    LET named == SelectSeq(d, LAMBDA r : r["origin"] # "Total")
        other_cols == SelectSeq(groupby_cols, LAMBDA c : c # "origin")
        columns == groupby_cols \o <<"Status", "count", "percentage">>
        total_grouped ==
            IF other_cols # <<>>
            THEN CancellationGrouped(named, other_cols, "count", "percentage")
            ELSE CancellationBasic(named, "count", "percentage").rows
    IN  [i \in 1..Len(total_grouped) |->
            [c \in Range(columns) |->
                IF c = "origin" THEN "Total" ELSE total_grouped[i][c]]]

\* Lines 65-87: the rows with origin = 'Total', counted from the dataframe
\* grouped without 'origin'.
LongTotalRows(d, groupby_cols) ==
    LET other_cols == SelectSeq(groupby_cols, LAMBDA c : c # "origin")
        columns == groupby_cols \o <<"Status", "count", "percentage">>
        total_grouped ==
            IF other_cols # <<>>
            THEN CancellationGrouped(d, other_cols, "count", "percentage")
            ELSE CancellationBasic(d, "count", "percentage").rows
    IN  [i \in 1..Len(total_grouped) |->
            [c \in Range(columns) |->
                IF c = "origin" THEN "Total" ELSE total_grouped[i][c]]]

\* Lines 93-100: the sort key of a row of the long table.
LongSortKey(row, groupby_cols) ==
    CancellationSortKey(row, groupby_cols) \o <<StrRank(row["Status"])>>

generate_cancellation_csv_long(d, groupby_cols) ==
    IF groupby_cols = <<>>
    THEN RenameTable(CancellationBasic(d, "count", "percentage"),
                     column_mapping_long)
    ELSE
      LET grouped == CancellationGrouped(d, groupby_cols, "count", "percentage")
          columns == groupby_cols \o <<"Status", "count", "percentage">>
          Key(r) == LongSortKey(r, groupby_cols)
          rows == IF "origin" \in Range(groupby_cols)
                  THEN grouped \o LongTotalRows(d, groupby_cols)
                  ELSE grouped
      IN  RenameTable(Table(columns, SortRows(rows, Key)), column_mapping_long)

\* ------------------------------------------------------------------
\* generate_cancel_rate_csv (prepare_flourish_data.py)
generate_cancel_rate_csv(d, groupby_cols) ==
    LET by == IF groupby_cols = <<>> THEN <<"Status">> ELSE groupby_cols
        keys == SortedKeys(GroupKeys(d, by))
        columns == by \o <<"cancel_rate", "total", "canceled">>
    IN  Table(columns,
              [i \in 1..Len(keys) |->
                  LET total == GroupSize(d, by, keys[i])
                      canceled == GroupSum(d, by, keys[i])
                  IN  MkRow(columns,
                            keys[i] \o <<Round2(canceled, total), total, canceled>>)])

\* ------------------------------------------------------------------
\* Dates.  A date is its number of days after Monday 2014-12-29, so that
\* 2015-01-01 is day 3; the model keeps to dates of 2015.

\* pd.to_datetime(errors='coerce'): <<day>> for a date, <<>> for NaT.
ToDatetime(cell) == IF cell.ok THEN <<cell.v>> ELSE <<>>

\* dt.to_period('W').dt.start_time: the Monday of the date's week
WeekStart(day) == day - (day % 7)

\* dt.month
MonthOf(day) ==
    LET last == <<31, 59, 90, 120, 151, 181, 212, 243, 273, 304, 334>>
        doy == day - 2
    IN  IF doy < 1 THEN 12 ELSE 1 + Cardinality({m \in 1..11 : doy > last[m]})

\* dt.strftime('%B')
MonthName(day) ==
    << "January", "February", "March", "April", "May", "June", "July",
       "August", "September", "October", "November", "December" >>[MonthOf(day)]

SortedInts(S) ==
    [p \in 1..Cardinality(S) |->
        CHOOSE x \in S : Cardinality({y \in S : y < x}) = p - 1]

\* The value of a date column of a row: 'dia' holds <<day>>, 'week' a day.
DateValue(r, col) == IF col = "dia" THEN r["dia"][1] ELSE r[col]

\* A pivot on a date column: the index columns, the date labels in column
\* order, and for each row its key and its cell under each label.
PivotTable(columns, labels, rows) ==
    [error |-> "", columns |-> columns, labels |-> labels, rows |-> rows]

\* The pivot without fill_value: a combination with no record stays missing.
BookingsPivotUnfilled(d, index_cols, date_col) ==
    LET valid == {i \in 1..Len(d) : \A c \in Range(index_cols) : d[i][c] # NULL}
        grouped == {<<KeyOf(d[i], index_cols), DateValue(d[i], date_col)>> :
                       i \in valid}
        bookings(k, t) ==
            Cardinality({i \in valid : /\ KeyOf(d[i], index_cols) = k
                                       /\ DateValue(d[i], date_col) = t})
        index == SortedKeys({g[1] : g \in grouped})
        date_cols == SortedInts({g[2] : g \in grouped})
    IN  PivotTable(index_cols, date_cols,
            [n \in 1..Len(index) |->
                [key |-> index[n],
                 cells |-> [t \in Range(date_cols) |->
                              IF <<index[n], t>> \in grouped
                              THEN bookings(index[n], t)
                              ELSE NaN]]])

\* groupby(index_cols + [date_col]).size(), pivot_table(index=index_cols,
\* columns=date_col, values='bookings', fill_value=0), and the date columns
\* sorted (prepare_flourish_data.py lines 268-280, 323-333, 346-356,
\* 523-531, 537-545, 551-559; prepare_flourish_data_timeline.py 113-125).
BookingsPivot(d, index_cols, date_col) ==
    LET valid == {i \in 1..Len(d) : \A c \in Range(index_cols) : d[i][c] # NULL}
        grouped == {<<KeyOf(d[i], index_cols), DateValue(d[i], date_col)>> :
                       i \in valid}
        bookings(k, t) ==
            Cardinality({i \in valid : /\ KeyOf(d[i], index_cols) = k
                                       /\ DateValue(d[i], date_col) = t})
        index == SortedKeys({g[1] : g \in grouped})
        date_cols == SortedInts({g[2] : g \in grouped})
        fill_value == 0
    IN  PivotTable(index_cols, date_cols,
            [n \in 1..Len(index) |->
                [key |-> index[n],
                 cells |-> [t \in Range(date_cols) |->
                              IF <<index[n], t>> \in grouped
                              THEN bookings(index[n], t)
                              ELSE fill_value]]])

\* ------------------------------------------------------------------
\* The week tables (prepare_flourish_data_timeline.py)

TwoDigits(n) == IF n < 10 THEN "0" \o ToString(n) ELSE ToString(n)

\* Timestamp.strftime('%Y-%m-%d')
StrfTime(day) ==
    LET last == <<0, 31, 59, 90, 120, 151, 181, 212, 243, 273, 304, 334>>
        doy == day - 2
    IN  IF doy < 1 THEN "2014-12-" \o ToString(29 + day)
        ELSE "2015-" \o TwoDigits(MonthOf(day)) \o "-"
                \o TwoDigits(doy - last[MonthOf(day)])

\* str(Timestamp) of a midnight, the text DataFrame.to_csv writes for a
\* column label that is a Timestamp.
TimestampStr(day) == StrfTime(day) \o " 00:00:00"

\* The column labels to_csv(index=False) writes in the header of a pivot
\* whose date columns are still Timestamps (lines 532-534, 546-548, 560-562
\* of prepare_flourish_data.py).
to_csv_header(df_result) ==
    [i \in 1..Len(df_result.labels) |-> TimestampStr(df_result.labels[i])]

\* Lines 47-69: the week columns, Timestamps, renamed to their dates.
format_week_columns(df_result) ==
    PivotTable(df_result.columns,
               [i \in 1..Len(df_result.labels) |-> StrfTime(df_result.labels[i])],
               [n \in 1..Len(df_result.rows) |->
                   [key |-> df_result.rows[n].key,
                    cells |-> [c \in {StrfTime(t) : t \in Range(df_result.labels)} |->
                                 df_result.rows[n].cells[
                                    CHOOSE t \in Range(df_result.labels) :
                                       StrfTime(t) = c]]]])

\* '-'.join of the grouping values of a row
RECURSIVE JoinLabel(_)
JoinLabel(k) == IF Len(k) = 1 THEN k[1] ELSE k[1] \o "-" \o JoinLabel(Tail(k))

\* Lines 71-102: the grouping columns joined into the one column Label,
\* followed by the date columns.
combine_groupby_columns(df_result) ==
    PivotTable(<<"Label">>, df_result.labels,
               [n \in 1..Len(df_result.rows) |->
                   [key |-> <<JoinLabel(df_result.rows[n].key)>>,
                    cells |-> df_result.rows[n].cells]])

\* Lines 191-225: timeline_3.  A group without bookings of status 0 or 1 has
\* the rate 0/0; pivot_table leaves out the entries whose value is missing
\* (dropna=True) before it fills the empty cells.
timeline_3(d) ==
    LET valid == {i \in 1..Len(d) : d[i]["hotel"] # NULL /\ d[i]["origin"] # NULL}
        values == {d[i]["is_canceled"] : i \in valid}
        index == {<<d[i]["week"], d[i]["hotel"], d[i]["origin"]>> : i \in valid}
        count(g, v) ==
            Cardinality({i \in valid :
                /\ <<d[i]["week"], d[i]["hotel"], d[i]["origin"]>> = g
                /\ d[i]["is_canceled"] = v})
        cancel_rate(g) == Round2(count(g, 1), count(g, 0) + count(g, 1))
        kept == {g \in index : cancel_rate(g) # NaN}
        labels == SortedKeys({<<g[2], g[3]>> : g \in kept})
        week_cols_3 == SortedInts({g[1] : g \in kept})
        fill_value == 0
    IN  IF ~ ({0, 1} \subseteq values) THEN Raised("KeyError")
        ELSE combine_groupby_columns(format_week_columns(
               PivotTable(<<"hotel", "origin">>, week_cols_3,
                  [n \in 1..Len(labels) |->
                      [key |-> labels[n],
                       cells |-> [t \in Range(week_cols_3) |->
                          IF <<t, labels[n][1], labels[n][2]>> \in kept
                          THEN cancel_rate(<<t, labels[n][1], labels[n][2]>>)
                          ELSE fill_value]]])))

\* ------------------------------------------------------------------
\* The weekly cancellation tables 50 and 51 (prepare_flourish_data.py lines
\* 564-590), cat_cols being the index columns before 'week'.
weekly_cancel_pivot(d, cat_cols) ==
    LET valid == {i \in 1..Len(d) :
                     /\ \A c \in Range(cat_cols) : d[i][c] # NULL
                     /\ d[i]["Status"] # NULL}
        statuses == {d[i]["Status"] : i \in valid}
        index == {<<KeyOf(d[i], cat_cols), d[i]["week"]>> : i \in valid}
        count(g, s) ==
            Cardinality({i \in valid :
                /\ <<KeyOf(d[i], cat_cols), d[i]["week"]>> = g
                /\ d[i]["Status"] = s})
        Key(g) == RankKey(g[1]) \o <<g[2]>>
        pos(g) == 1 + Cardinality({x \in index : LexLess(Key(x), Key(g))})
        sorted == [p \in 1..Cardinality(index) |-> CHOOSE g \in index : pos(g) = p]
        columns == cat_cols \o <<"week", "Canceled", "Not canceled",
                                 "total", "cancel_rate">>
        fill_value == 0
        Cell(g, s) == IF count(g, s) > 0 THEN count(g, s) ELSE fill_value
    IN  IF ~ ({"Canceled", "Not canceled"} \subseteq statuses)
        THEN Raised("KeyError")
        ELSE Table(columns,
               [n \in 1..Len(sorted) |->
                  LET g == sorted[n]
                      total == Cell(g, "Canceled") + Cell(g, "Not canceled")
                  IN  [c \in Range(columns) |->
                         CASE c = "week" -> g[2]
                           [] c = "Canceled" -> Cell(g, "Canceled")
                           [] c = "Not canceled" -> Cell(g, "Not canceled")
                           [] c = "total" -> total
                           [] c = "cancel_rate" -> Round2(Cell(g, "Canceled"), total)
                           [] OTHER -> g[1][IndexOf(cat_cols, c)]]])

\* ------------------------------------------------------------------
\* The lead-time report (prepare_flourish_data.py lines 647-726)

\* The groups with the last value of '181-365' left out of it.
categorize_lead_time_exclusive(lead_time) ==
    IF lead_time = 0 THEN "0"
    ELSE IF 1 <= lead_time /\ lead_time <= 7 THEN "1-7"
    ELSE IF 8 <= lead_time /\ lead_time <= 15 THEN "8-15"
    ELSE IF 16 <= lead_time /\ lead_time <= 30 THEN "16-30"
    ELSE IF 31 <= lead_time /\ lead_time <= 90 THEN "31-90"
    ELSE IF 91 <= lead_time /\ lead_time <= 180 THEN "91-180"
    ELSE IF 181 <= lead_time /\ lead_time < 365 THEN "181-365"
    ELSE "+365"

categorize_lead_time(lead_time) ==
    IF lead_time = 0 THEN "0"
    ELSE IF 1 <= lead_time /\ lead_time <= 7 THEN "1-7"
    ELSE IF 8 <= lead_time /\ lead_time <= 15 THEN "8-15"
    ELSE IF 16 <= lead_time /\ lead_time <= 30 THEN "16-30"
    ELSE IF 31 <= lead_time /\ lead_time <= 90 THEN "31-90"
    ELSE IF 91 <= lead_time /\ lead_time <= 180 THEN "91-180"
    ELSE IF 181 <= lead_time /\ lead_time <= 365 THEN "181-365"
    ELSE "+365"

lead_time_order ==
    <<"0", "1-7", "8-15", "16-30", "31-90", "91-180", "181-365", "+365">>

month_order ==
    << "January", "February", "March", "April", "May", "June", "July",
       "August", "September", "October", "November", "December" >>

\* lambda x: order.index(x) if x in order else 999
OrderIndex(order, x) == IF x \in Range(order) THEN IndexOf(order, x) - 1 ELSE 999

\* groupby(cols).agg(count, sum) of is_canceled and the cancel rate of each
\* group, the counts dropped (lines 678-687, 691-703, 749-758, 762-774).
CancelRateRows(d, cols, out, Shape(_)) ==
    LET keys == SortedKeys(GroupKeys(d, cols))
    IN  [i \in 1..Len(keys) |->
            MkRow(out, Shape(keys[i])
                         \o <<Round2(GroupSum(d, cols, keys[i]),
                                     GroupSize(d, cols, keys[i]))>>)]

\* The sort key with the group compared as text.
LeadTimeSortKeyByLabel(row) ==
    << StrRank(row["lead_time_group"]),
       StrRank(row["hotel"]),
       IF row["origin"] = "Total" THEN 1 ELSE 0,
       StrRank(row["origin"]) >>

\* Lines 708-713: the sort key of a row of the lead-time report.
LeadTimeSortKey(row) ==
    << OrderIndex(lead_time_order, row["lead_time_group"]),
       StrRank(row["hotel"]),
       IF row["origin"] = "Total" THEN 1 ELSE 0,
       StrRank(row["origin"]) >>

lead_time_mapping(c) ==
    CASE c = "lead_time_group" -> "Lead Time"
      [] c = "hotel" -> "Hotel"
      [] c = "origin" -> "Origin"
      [] c = "cancel_rate" -> "% Cancellations"
      [] OTHER -> c

\* Lines 678-721, d being df_lead_time.
lead_time_result(d) ==
    LET out == <<"lead_time_group", "hotel", "origin", "cancel_rate">>
        lead_time_grouped ==
            CancelRateRows(d, <<"lead_time_group", "hotel", "origin">>, out,
                           LAMBDA k : k)
        lead_time_total ==
            CancelRateRows(d, <<"lead_time_group", "hotel">>, out,
                           LAMBDA k : <<k[1], k[2], "Total">>)
    IN  RenameTable(Table(out, SortRows(lead_time_grouped \o lead_time_total,
                                        LeadTimeSortKey)),
                    lead_time_mapping)

\* ------------------------------------------------------------------
\* The month report (prepare_flourish_data.py lines 736-815)

\* Lines 794-799: the sort key of a row of the month report.
MonthSortKey(row) ==
    << OrderIndex(month_order, row["month_name"]),
       IF row["origin"] = "Total" THEN 1 ELSE 0,
       StrRank(row["origin"]) >>

month_mapping(c) ==
    CASE c = "origin" -> "Origin"
      [] c = "month_name" -> "Month"
      [] c = "City Hotel" -> "% Cancellations City Hotel"
      [] c = "Resort Hotel" -> "% Cancellations Resort Hotel"
      [] OTHER -> c

\* The mean pivot_table takes of the cancel rates that fall in one cell (one
\* rate per cell unless the data has an origin named 'Total').
MeanOf(rows, c) == SumColumn(rows, c) \div Len(rows)

\* Lines 749-810, d being df_month.  The groups are keyed by 'month' and
\* 'month_name' in the source; the name determines the number, which is
\* dropped at lines 755 and 768, and the pivot sorts the rows anew, so the
\* groups are keyed here by 'month_name' alone.
month_result(d) ==
    LET out == <<"hotel", "origin", "month_name", "cancel_rate">>
        month_grouped ==
            CancelRateRows(d, <<"hotel", "origin", "month_name">>, out,
                           LAMBDA k : k)
        month_total ==
            CancelRateRows(d, <<"hotel", "month_name">>, out,
                           LAMBDA k : <<k[1], "Total", k[2]>>)
        month_result_long == month_grouped \o month_total
        index == SortedKeys({KeyOf(r, <<"origin", "month_name">>) :
                                r \in Range(month_result_long)})
        hotel_cols == SortedKeys({<<r["hotel"]>> : r \in Range(month_result_long)})
        columns == <<"origin", "month_name">>
                      \o [i \in 1..Len(hotel_cols) |-> hotel_cols[i][1]]
        cell(k, h) ==
            LET hit == SelectSeq(month_result_long,
                          LAMBDA r : /\ KeyOf(r, <<"origin", "month_name">>) = k
                                     /\ r["hotel"] = h)
            IN  IF hit = <<>> THEN 0 ELSE MeanOf(hit, "cancel_rate")
        pivoted == [i \in 1..Len(index) |->
                      [c \in Range(columns) |->
                          IF c = "origin" THEN index[i][1]
                          ELSE IF c = "month_name" THEN index[i][2]
                          ELSE cell(index[i], c)]]
    IN  RenameTable(Table(columns, SortRows(pivoted, MonthSortKey)),
                    month_mapping)

\* ------------------------------------------------------------------
\* ADR.  An adr is held in hundredths.  A statistic that is no whole number
\* of hundredths is held exactly: a quotient as <<numerator, denominator>> in
\* lowest terms, a standard deviation as the quotient it is the root of.

RECURSIVE Gcd(_, _)
Gcd(a, b) == IF b = 0 THEN a ELSE Gcd(b, a % b)

Frac(num, den) == LET g == Gcd(num, den) IN <<num \div g, den \div g>>

\* round(num / den) to a whole number of hundredths, ties to even
RoundFrac(num, den) ==
    LET q == num \div den
        r == num % den
    IN  IF 2 * r > den THEN q + 1
        ELSE IF 2 * r < den THEN q
        ELSE IF q % 2 = 0 THEN q ELSE q + 1

\* The adr values of the rows idx of d that are numbers (every aggregation
\* skips NaN), in ascending order.
AdrValues(d, idx) ==
    LET rows == SelectSeq([i \in 1..Len(d) |-> <<i, d[i]["adr"]>>],
                          LAMBDA x : x[1] \in idx /\ x[2] # <<>>)
        n == Len(rows)
        v(i) == rows[i][2][1]
        pos(i) == 1 + Cardinality({j \in 1..n : v(j) < v(i) \/ (v(j) = v(i) /\ j < i)})
    IN  [p \in 1..n |-> v(CHOOSE i \in 1..n : pos(i) = p)]

RECURSIVE SumSeq(_)
SumSeq(vals) == IF vals = <<>> THEN 0 ELSE Head(vals) + SumSeq(Tail(vals))

\* The median of ascending values taken as their mean.
MedianAsMean(vals) ==
    IF vals = <<>> THEN NaN ELSE Frac(SumSeq(vals), Len(vals))

\* Series.median of ascending values, as a quotient
Median(vals) ==
    LET n == Len(vals)
    IN  IF n = 0 THEN NaN
        ELSE IF n % 2 = 1 THEN Frac(vals[(n + 1) \div 2], 1)
        ELSE Frac(vals[n \div 2] + vals[(n \div 2) + 1], 2)

\* Series.agg(stat) of ascending values; std has ddof=1
Statistic(stat, vals) ==
    LET n == Len(vals)
        sum == SumSeq(vals)
        sumsq == SumSeq([i \in 1..n |-> vals[i] * vals[i]])
    IN  IF stat = "count" THEN n
        ELSE IF n = 0 THEN NaN
        ELSE IF stat = "mean" THEN Frac(sum, n)
        ELSE IF stat = "median" THEN Median(vals)
        ELSE IF stat = "min" THEN vals[1]
        ELSE IF stat = "max" THEN vals[n]
        ELSE IF n = 1 THEN NaN
        ELSE [sqrt |-> Frac(n * sumsq - sum * sum, n * (n - 1))]

statistics == <<"mean", "median", "std", "min", "max", "count">>

GroupRows(d, cols, k) == {i \in 1..Len(d) : KeyOf(d[i], cols) = k}

\* Lines 428-443
generate_adr_csv(d, groupby_cols) ==
    IF groupby_cols = <<>>
    THEN Table(<<"group", "adr">>,
               [i \in 1..Len(d) |-> [group |-> "All", adr |-> FillNa(d[i]["adr"], NaN)]])
    ELSE LET columns == groupby_cols \o <<"adr">>
         IN  Table(columns,
                   [i \in 1..Len(d) |->
                       MkRow(columns, KeyOf(d[i], groupby_cols)
                                         \o <<FillNa(d[i]["adr"], NaN)>>)])

\* Lines 476-500
generate_adr_summary_csv(d, groupby_cols) ==
    IF groupby_cols = <<>>
    THEN LET vals == AdrValues(d, 1..Len(d))
         IN  Table(<<"group", "statistic", "value">>,
                   [s \in 1..Len(statistics) |->
                       [group |-> "All", statistic |-> statistics[s],
                        value |-> Statistic(statistics[s], vals)]])
    ELSE LET keys == SortedKeys(GroupKeys(d, groupby_cols))
             columns == groupby_cols \o <<"statistic", "value">>
             nk == Len(keys)
         \* melt: the groups under the first statistic, then under the next
         IN  Table(columns,
                   [n \in 1..(Len(statistics) * nk) |->
                       LET stat == statistics[((n - 1) \div nk) + 1]
                           k == keys[((n - 1) % nk) + 1]
                       IN  MkRow(columns,
                                 k \o <<stat,
                                        Statistic(stat,
                                            AdrValues(d, GroupRows(d, groupby_cols, k)))>>)])

\* A quotient of hundredths rounded to hundredths: Series.round(2)
RoundValue(q) == RoundFrac(q[1], q[2])

\* Lines 600-622.  coerced tells whether line 425 has run on d: before it
\* the adr column is as read from the csv, of dtype object when a cell of it
\* is no number, and the aggregation of such a column raises (TypeError or
\* DataError, by version of pandas).
generate_segment_summary_csv(d, groupby_cols, coerced) ==
    LET keys == SortedKeys(GroupKeys(d, groupby_cols))
        columns == groupby_cols \o <<"total_bookings", "canceled_bookings", "cancel_rate",
                                     "not_canceled_bookings", "adr_mean", "adr_median">>
        numeric == [i \in 1..Len(d) |->
                       [d[i] EXCEPT !["adr"] = IF coerced THEN @ ELSE ToNumeric(@)]]
        summary ==
            Table(columns,
                  [i \in 1..Len(keys) |->
                      LET total == GroupSize(d, groupby_cols, keys[i])
                          canceled == GroupSum(d, groupby_cols, keys[i])
                          vals == AdrValues(numeric, GroupRows(d, groupby_cols, keys[i]))
                      IN  MkRow(columns,
                                keys[i] \o <<total, canceled, Round2(canceled, total),
                                             total - canceled,
                                             IF vals = <<>> THEN NaN
                                             ELSE RoundValue(Statistic("mean", vals)),
                                             IF vals = <<>> THEN NaN
                                             ELSE RoundValue(Statistic("median", vals))>>)])
    IN  IF ~coerced /\ \E i \in 1..Len(d) : ~d[i]["adr"].ok
        THEN {Raised("TypeError"), Raised("DataError")}
        ELSE {summary}

\* ------------------------------------------------------------------
\* The csv as read (pd.read_csv): the rows, given up to their order, which
\* no report depends on since every report groups and sorts.
RECURSIVE NonDecreasing(_, _, _)
NonDecreasing(n, lo, hi) ==
    IF n = 0 THEN {<<>>}
    ELSE UNION {{<<i>> \o s : s \in NonDecreasing(n - 1, i, hi)} : i \in lo..hi}

Datasets(dom, maxLen) ==
    UNION {{[i \in 1..n |-> dom[s[i]]] : s \in NonDecreasing(n, 1, Len(dom))} :
              n \in 0..maxLen}

\* Every record over the given cells, hotel varying slowest.
RecordDomain(hs, os, cs, ds, ls) ==
    LET nh == Len(hs)  no == Len(os)  nc == Len(cs)  nd == Len(ds)  nl == Len(ls)
    IN  [n \in 1..(nh * no * nc * nd * nl) |->
            LET m == n - 1
            IN  [hotel |-> hs[(m \div (no * nc * nd * nl)) + 1],
                 origin |-> os[((m \div (nc * nd * nl)) % no) + 1],
                 is_canceled |-> cs[((m \div (nd * nl)) % nc) + 1],
                 dia |-> ds[((m \div nl) % nd) + 1],
                 lead_time |-> ls[(m % nl) + 1]]]

\* is_canceled cells: 0, 1, another number, and text that is no number
CancelCells ==
    <<RawCell(TRUE, 0), RawCell(TRUE, 1), RawCell(TRUE, 2), RawCell(FALSE, 0)>>

CancelDatasets ==
    Datasets(RecordDomain(<<"A", "B">>, <<"X", "Y", NULL>>, CancelCells,
                          <<RawCell(TRUE, 5)>>, <<RawCell(TRUE, 0)>>),
             MaxRecords)

\* The records of the worked example of the specification: hotels A and B,
\* origins X and Y, is_canceled 0 and 1.
ScenarioDatasets ==
    Datasets(RecordDomain(<<"A", "B">>, <<"X", "Y">>,
                          <<RawCell(TRUE, 0), RawCell(TRUE, 1)>>,
                          <<RawCell(TRUE, 5)>>, <<RawCell(TRUE, 0)>>),
             MaxScenarioRecords)

\* Records for the pivots: two dates of one week, one of the next, and a
\* cell that is no date.
PivotDatasets ==
    Datasets(RecordDomain(<<"A", "B">>, <<"X", NULL>>,
                          <<RawCell(TRUE, 0), RawCell(TRUE, 1)>>,
                          <<RawCell(TRUE, 3), RawCell(TRUE, 4), RawCell(TRUE, 8),
                            RawCell(FALSE, 0)>>,
                          <<RawCell(TRUE, 0)>>),
             MaxDateRecords)

\* One record of each lead time from MinLeadTime to MaxLeadTime.
BucketDatasets ==
    {<<[hotel |-> "A", origin |-> "X", is_canceled |-> RawCell(TRUE, 0),
        dia |-> RawCell(TRUE, 3), lead_time |-> RawCell(TRUE, n)]>> :
        n \in 0..MaxLeadTime}

\* Records for the lead-time and month reports: lead times of three groups,
\* a negative one and a cell that is no number; a date in January (day 3)
\* and one in April (day 93).
LeadDatasets ==
    Datasets(RecordDomain(<<"A", "B">>, <<"X">>,
                          <<RawCell(TRUE, 0), RawCell(TRUE, 1)>>,
                          <<RawCell(TRUE, 3), RawCell(TRUE, 93)>>,
                          <<RawCell(TRUE, 10), RawCell(TRUE, 20), RawCell(TRUE, 400),
                            RawCell(TRUE, 0 - 1), RawCell(FALSE, 0)>>),
             MaxLeadRecords)

\* Records for the weekly cancellation tables: two weeks, two hotels, and a
\* status value that is neither 0 nor 1.
TimelineDatasets ==
    Datasets(RecordDomain(<<"A", "B">>, <<"X">>,
                          <<RawCell(TRUE, 0), RawCell(TRUE, 1), RawCell(TRUE, 2)>>,
                          <<RawCell(TRUE, 3), RawCell(TRUE, 8)>>,
                          <<RawCell(TRUE, 0)>>),
             MaxTimelineRecords)

\* Records for the Label column: hotels and origins whose names may have a
\* hyphen in them, in two weeks.
LabelDatasets ==
    Datasets(RecordDomain(<<"A", "A-X">>, <<"X", "X-X">>, <<RawCell(TRUE, 0)>>,
                          <<RawCell(TRUE, 3), RawCell(TRUE, 8)>>,
                          <<RawCell(TRUE, 0)>>),
             MaxTimelineRecords)

\* One hotel and origin with n bookings, the first c of them canceled.
RoundingDatasets ==
    {[i \in 1..n |->
        [hotel |-> "A", origin |-> "X",
         is_canceled |-> RawCell(TRUE, IF i <= c THEN 1 ELSE 0),
         dia |-> RawCell(TRUE, 5), lead_time |-> RawCell(TRUE, 0)]] :
        n \in 1..MaxGroupSize, c \in 0..MaxGroupSize}

\* Records whose origin may be the string 'Total' itself.
TotalOriginDatasets ==
    Datasets(RecordDomain(<<"A", "B">>, <<"X", "Total">>,
                          <<RawCell(TRUE, 0), RawCell(TRUE, 1)>>,
                          <<RawCell(TRUE, 5)>>, <<RawCell(TRUE, 0)>>),
             MaxRecords)

\* Records for the lead-time and month reports of data with an origin named
\* 'Total': one date, one lead-time group.
MonthTotalDatasets ==
    Datasets(RecordDomain(<<"A", "B">>, <<"X", "Total">>,
                          <<RawCell(TRUE, 0), RawCell(TRUE, 1)>>,
                          <<RawCell(TRUE, 3)>>, <<RawCell(TRUE, 10)>>),
             MaxLeadRecords)

\* The records of dom with an adr cell added, the adr varying fastest.
WithAdr(dom, as) ==
    [n \in 1..(Len(dom) * Len(as)) |->
        LET r == dom[((n - 1) \div Len(as)) + 1]
        IN  [c \in DOMAIN r \cup {"adr"} |->
                IF c = "adr" THEN as[((n - 1) % Len(as)) + 1] ELSE r[c]]]

\* Records for the reports of the main script taken together: each of dia,
\* lead_time and adr is a value or a cell that cannot be parsed.
AdrDatasets ==
    Datasets(WithAdr(RecordDomain(<<"A">>, <<"X">>,
                                  <<RawCell(TRUE, 0), RawCell(TRUE, 1)>>,
                                  <<RawCell(TRUE, 3), RawCell(FALSE, 0)>>,
                                  <<RawCell(TRUE, 10), RawCell(FALSE, 0)>>),
                     <<RawCell(TRUE, 100), RawCell(TRUE, 250), RawCell(FALSE, 0)>>),
             MaxAdrRecords)

\* Records for the segment summary: is_canceled 0, 1 or another number, and
\* an adr that is a number.
SegmentDatasets ==
    Datasets(WithAdr(RecordDomain(<<"A", "B">>, <<"X">>,
                                  <<RawCell(TRUE, 0), RawCell(TRUE, 1), RawCell(TRUE, 2)>>,
                                  <<RawCell(TRUE, 3)>>, <<RawCell(TRUE, 10)>>),
                     <<RawCell(TRUE, 100), RawCell(TRUE, 250)>>),
             MaxAdrRecords)

AdrGroupbyLists == {<<>>, <<"hotel", "origin">>}

GroupbyLists ==
    {<<>>, <<"hotel">>, <<"origin">>, <<"hotel", "origin">>, <<"origin", "hotel">>}

\* ------------------------------------------------------------------ actions
NoCall == [fn |-> "", groupby_cols |-> <<>>]

\* The three scripts; each reads the csv (the file INPUT_FILE, which none of
\* them writes) into df and runs its own statements.
Main == "prepare_flourish_data.py"
NotPivot == "prepare_flourish_data_not_pivot.py"
Timeline == "prepare_flourish_data_timeline.py"

InitWith(scripts, datasets) ==
    /\ script \in scripts
    /\ csv \in datasets
    /\ df = csv
    /\ defined = {}
    /\ df_temporal = <<>>
    /\ df_lead_time = <<>>
    /\ df_month = <<>>
    /\ df_adr = <<>>
    /\ call = NoCall
    /\ result = NoResult

\* is_canceled to int, unparsable to 0 (lines 20-22 of each script); the
\* Status column (lines 24-25), which the timeline script does not make.
CleanRow(r, withStatus) ==
    LET v == FillNa(ToNumeric(r["is_canceled"]), 0)
    IN  [c \in DOMAIN r \cup (IF withStatus THEN {"Status"} ELSE {}) |->
            IF c = "is_canceled" THEN v
            ELSE IF c = "Status" THEN StatusMap(v)
            ELSE r[c]]

Clean ==
    /\ "is_canceled" \notin defined
    /\ df' = [i \in 1..Len(df) |-> CleanRow(df[i], script # Timeline)]
    /\ defined' = defined \cup {"is_canceled"}
    /\ UNCHANGED <<csv, script, df_adr, df_temporal, df_lead_time, df_month, call, result>>

\* A call at module level: its table is written and the value dropped.
Return ==
    /\ call # NoCall
    /\ call' = NoCall
    /\ result' = NoResult
    /\ UNCHANGED <<csv, script, df_adr, df, defined, df_temporal, df_lead_time, df_month>>

Ready(s) == script = s /\ "is_canceled" \in defined /\ call = NoCall

GenerateCancellationCsv ==
    /\ Ready(Main)
    /\ \E groupby_cols \in GroupbyLists :
          /\ call' = [fn |-> "generate_cancellation_csv",
                      groupby_cols |-> groupby_cols]
          /\ result' = generate_cancellation_csv(df, groupby_cols)
    /\ UNCHANGED <<csv, script, df_adr, df, defined, df_temporal, df_lead_time, df_month>>

GenerateCancellationCsvLong ==
    /\ Ready(NotPivot)
    /\ \E groupby_cols \in GroupbyLists :
          /\ call' = [fn |-> "generate_cancellation_csv_long",
                      groupby_cols |-> groupby_cols]
          /\ result' = generate_cancellation_csv_long(df, groupby_cols)
    /\ UNCHANGED <<csv, script, df_adr, df, defined, df_temporal, df_lead_time, df_month>>

GenerateCancelRateCsv ==
    /\ Ready(Main)
    /\ \E groupby_cols \in GroupbyLists :
          /\ call' = [fn |-> "generate_cancel_rate_csv",
                      groupby_cols |-> groupby_cols]
          /\ result' = generate_cancel_rate_csv(df, groupby_cols)
    /\ UNCHANGED <<csv, script, df_adr, df, defined, df_temporal, df_lead_time, df_month>>

\* df['dia'] = pd.to_datetime(df['dia'], errors='coerce'), a second time
\* (line 737) on the dates the first (line 262) made.
CoerceDia(d) ==
    IF "dia" \in defined THEN d
    ELSE [i \in 1..Len(d) |-> [d[i] EXCEPT !["dia"] = ToDatetime(@)]]

\* dropna().copy() with no subset: a row goes when any field coerced so far
\* is missing.
DropNaAnywhere(d, col) ==
    SelectSeq(d, LAMBDA r : \A c \in {"dia", "lead_time", "adr"} \cap DOMAIN r :
                                r[c] # <<>>)

\* dropna(subset=[col]).copy()
DropNa(d, col) == SelectSeq(d, LAMBDA r : r[col] # <<>>)

WithColumn(r, col, v) == [c \in DOMAIN r \cup {col} |-> IF c = col THEN v ELSE r[c]]

\* Lines 261-265
PrepareTemporal ==
    /\ Ready(Main)
    /\ "df_temporal" \notin defined
    /\ df' = CoerceDia(df)
    /\ df_temporal' = DropNa(df', "dia")
    /\ defined' = defined \cup {"dia", "df_temporal"}
    /\ UNCHANGED <<csv, script, df_adr, df_lead_time, df_month, call, result>>

\* Line 520
AddWeek ==
    /\ Ready(Main)
    /\ "df_temporal" \in defined
    /\ "week" \notin defined
    /\ df_temporal' = [i \in 1..Len(df_temporal) |->
                          WithColumn(df_temporal[i], "week",
                                     WeekStart(df_temporal[i]["dia"][1]))]
    /\ defined' = defined \cup {"week"}
    /\ UNCHANGED <<csv, script, df_adr, df, df_lead_time, df_month, call, result>>

\* Tables 27 and 28 (lines 323-361)
TemporalPivot ==
    /\ Ready(Main)
    /\ "df_temporal" \in defined
    /\ \E index_cols \in {<<"origin">>, <<"hotel", "origin">>} :
          /\ call' = [fn |-> "temporal_pivot", groupby_cols |-> index_cols]
          /\ result' = BookingsPivot(df_temporal, index_cols, "dia")
    /\ UNCHANGED <<csv, script, df_adr, df, defined, df_temporal, df_lead_time, df_month>>

\* Tables 47, 48 and 49 (lines 522-562)
WeeklyPivot ==
    /\ Ready(Main)
    /\ "week" \in defined
    /\ \E index_cols \in {<<"origin">>, <<"hotel", "origin">>, <<"hotel">>} :
          /\ call' = [fn |-> "weekly_pivot", groupby_cols |-> index_cols]
          /\ result' = BookingsPivot(df_temporal, index_cols, "week")
    /\ UNCHANGED <<csv, script, df_adr, df, defined, df_temporal, df_lead_time, df_month>>

\* prepare_flourish_data_timeline.py lines 23-30: the script's df keeps the
\* rows with a date and gets the week column.
PrepareTimeline ==
    /\ Ready(Timeline)
    /\ "week" \notin defined
    /\ df' = LET dated == DropNa(CoerceDia(df), "dia")
             IN  [i \in 1..Len(dated) |->
                    WithColumn(dated[i], "week", WeekStart(dated[i]["dia"][1]))]
    /\ defined' = defined \cup {"dia", "week"}
    /\ UNCHANGED <<csv, script, df_adr, df_temporal, df_lead_time, df_month, call, result>>

\* prepare_flourish_data_timeline.py lines 112-138: timeline_1.  The Label
\* of a table without rows is left open: pandas joins the columns of an empty
\* frame to an empty column or raises, by version.
Timeline1 ==
    /\ Ready(Timeline)
    /\ "week" \in defined
    /\ call' = [fn |-> "timeline_1", groupby_cols |-> <<"hotel", "origin">>]
    /\ LET timeline_1 == BookingsPivot(df, <<"hotel", "origin">>, "week")
           done == combine_groupby_columns(format_week_columns(timeline_1))
       IN  IF timeline_1.rows = <<>>
           THEN result' \in {done, Raised("ValueError")}
           ELSE result' = done
    /\ UNCHANGED <<csv, script, df_adr, df, defined, df_temporal, df_lead_time, df_month>>

\* prepare_flourish_data_timeline.py lines 186-230: timeline_3
Timeline3 ==
    /\ Ready(Timeline)
    /\ "week" \in defined
    /\ call' = [fn |-> "timeline_3", groupby_cols |-> <<"hotel", "origin">>]
    /\ result' = timeline_3(df)
    /\ UNCHANGED <<csv, script, df_adr, df, defined, df_temporal, df_lead_time, df_month>>

\* Tables 50 and 51 (lines 564-590)
WeeklyCancellations ==
    /\ Ready(Main)
    /\ "week" \in defined
    /\ \E cat_cols \in {<<"origin">>, <<"hotel", "origin">>} :
          /\ call' = [fn |-> "weekly_cancel_pivot", groupby_cols |-> cat_cols]
          /\ result' = weekly_cancel_pivot(df_temporal, cat_cols)
    /\ UNCHANGED <<csv, script, df_adr, df, defined, df_temporal, df_lead_time, df_month>>

\* pd.to_numeric(df['lead_time'], errors='coerce')
CoerceLeadTime(d) ==
    [i \in 1..Len(d) |-> [d[i] EXCEPT !["lead_time"] = ToNumeric(@)]]

\* Lines 647-671
PrepareLeadTime ==
    /\ Ready(Main)
    /\ "df_lead_time" \notin defined
    /\ df' = CoerceLeadTime(df)
    /\ df_lead_time' =
          LET kept == DropNa(df', "lead_time")
          IN  [i \in 1..Len(kept) |->
                 WithColumn(kept[i], "lead_time_group",
                            categorize_lead_time(kept[i]["lead_time"][1]))]
    /\ defined' = defined \cup {"lead_time", "df_lead_time"}
    /\ UNCHANGED <<csv, script, df_adr, df_temporal, df_month, call, result>>

\* Lines 677-726
LeadTimeReport ==
    /\ Ready(Main)
    /\ "df_lead_time" \in defined
    /\ call' = [fn |-> "lead_time_result", groupby_cols |-> <<>>]
    /\ result' = lead_time_result(df_lead_time)
    /\ UNCHANGED <<csv, script, df_adr, df, defined, df_temporal, df_lead_time, df_month>>

\* Lines 736-742
PrepareMonth ==
    /\ Ready(Main)
    /\ "df_month" \notin defined
    /\ df' = CoerceDia(df)
    /\ df_month' =
          LET kept == DropNa(df', "dia")
          IN  [i \in 1..Len(kept) |->
                 WithColumn(WithColumn(kept[i], "month", MonthOf(kept[i]["dia"][1])),
                            "month_name", MonthName(kept[i]["dia"][1]))]
    /\ defined' = defined \cup {"dia", "df_month"}
    /\ UNCHANGED <<csv, script, df_adr, df_temporal, df_lead_time, call, result>>

\* Lines 748-815
MonthReport ==
    /\ Ready(Main)
    /\ "df_month" \in defined
    /\ call' = [fn |-> "month_result", groupby_cols |-> <<>>]
    /\ result' = month_result(df_month)
    /\ UNCHANGED <<csv, script, df_adr, df, defined, df_temporal, df_lead_time, df_month>>

\* Lines 424-426
PrepareAdr ==
    /\ Ready(Main)
    /\ "df_adr" \notin defined
    /\ df' = [i \in 1..Len(df) |-> [df[i] EXCEPT !["adr"] = ToNumeric(@)]]
    /\ df_adr' = DropNa(df', "adr")
    /\ defined' = defined \cup {"adr", "df_adr"}
    /\ UNCHANGED <<csv, script, df_temporal, df_lead_time, df_month, call, result>>

\* Tables 36 to 43 (lines 446-468)
GenerateAdrCsv ==
    /\ Ready(Main)
    /\ "df_adr" \in defined
    /\ \E groupby_cols \in AdrGroupbyLists :
          /\ call' = [fn |-> "generate_adr_csv", groupby_cols |-> groupby_cols]
          /\ result' = generate_adr_csv(df_adr, groupby_cols)
    /\ UNCHANGED <<csv, script, df_adr, df, defined, df_temporal, df_lead_time, df_month>>

\* Tables 44 to 46 (lines 502-509)
GenerateAdrSummaryCsv ==
    /\ Ready(Main)
    /\ "df_adr" \in defined
    /\ \E groupby_cols \in AdrGroupbyLists :
          /\ call' = [fn |-> "generate_adr_summary_csv", groupby_cols |-> groupby_cols]
          /\ result' = generate_adr_summary_csv(df_adr, groupby_cols)
    /\ UNCHANGED <<csv, script, df_adr, df, defined, df_temporal, df_lead_time, df_month>>

\* Tables 52 to 56 (lines 624-637), called on the shared df.  In the order
\* of the script the call comes after line 425; with anyOrder it may come
\* before as well.
GenerateSegmentSummaryCsv(anyOrder) ==
    /\ Ready(Main)
    /\ anyOrder \/ "adr" \in defined
    /\ call' = [fn |-> "generate_segment_summary_csv",
                groupby_cols |-> <<"hotel", "origin">>]
    /\ result' \in generate_segment_summary_csv(df, <<"hotel", "origin">>,
                                                "adr" \in defined)
    /\ UNCHANGED <<csv, script, df_adr, df, defined, df_temporal, df_lead_time, df_month>>

\* The cancellation tables of the two scripts that make them.
Init == InitWith({Main, NotPivot}, CancelDatasets)

Next ==
    \/ Clean
    \/ GenerateCancellationCsv
    \/ GenerateCancellationCsvLong
    \/ GenerateCancelRateCsv
    \/ Return

Spec == Init /\ [][Next]_vars

InitScenario == InitWith({Main, NotPivot}, ScenarioDatasets)

SpecScenario == InitScenario /\ [][Next]_vars

\* The cancellation tables of data with an origin named 'Total'.
InitTotalOrigin == InitWith({Main, NotPivot}, TotalOriginDatasets)

SpecTotalOrigin == InitTotalOrigin /\ [][Next]_vars

\* The cancellation tables of groups large enough for a percentage to fall
\* halfway between two hundredths.
InitRounding == InitWith({Main, NotPivot}, RoundingDatasets)

SpecRounding == InitRounding /\ [][Next]_vars

\* The pivots: the status pivot and the daily and weekly bookings pivots.
InitPivot == InitWith({Main, Timeline}, PivotDatasets)

NextPivot ==
    \/ Clean
    \/ GenerateCancellationCsv
    \/ PrepareTemporal
    \/ AddWeek
    \/ TemporalPivot
    \/ WeeklyPivot
    \/ PrepareTimeline
    \/ Timeline1
    \/ Return

SpecPivot == InitPivot /\ [][NextPivot]_vars

\* The tables with a weekly cancel rate, and the wide cancellation table.
InitTimeline == InitWith({Main, Timeline}, TimelineDatasets)

NextTimeline ==
    \/ Clean
    \/ GenerateCancellationCsv
    \/ PrepareTemporal
    \/ AddWeek
    \/ WeeklyCancellations
    \/ PrepareTimeline
    \/ Timeline3
    \/ Return

SpecTimeline == InitTimeline /\ [][NextTimeline]_vars

\* categorize_lead_time on one record of every lead time.
InitBucket == InitWith({Main}, BucketDatasets)

NextBucket ==
    \/ Clean
    \/ PrepareLeadTime
    \/ LeadTimeReport
    \/ Return

SpecBucket == InitBucket /\ [][NextBucket]_vars

\* The lead-time report and the month report.
InitLead == InitWith({Main}, LeadDatasets)

NextLead ==
    \/ Clean
    \/ PrepareLeadTime
    \/ LeadTimeReport
    \/ PrepareMonth
    \/ MonthReport
    \/ Return

SpecLead == InitLead /\ [][NextLead]_vars

\* The main script from its first line to its last: the statements on the
\* shared df in the order of the file, each report after the statements it
\* follows.
AdrAfterTemporal == "df_temporal" \in defined /\ PrepareAdr

WeekAfterAdr == "df_adr" \in defined /\ AddWeek

LeadTimeAfterWeek == "week" \in defined /\ PrepareLeadTime

MonthAfterLeadTime == "df_lead_time" \in defined /\ PrepareMonth

InitReports == InitWith({Main}, AdrDatasets)

NextReports ==
    \/ Clean
    \/ GenerateCancellationCsv
    \/ PrepareTemporal
    \/ TemporalPivot
    \/ GenerateCancelRateCsv
    \/ AdrAfterTemporal
    \/ GenerateAdrCsv
    \/ GenerateAdrSummaryCsv
    \/ WeekAfterAdr
    \/ WeeklyPivot
    \/ GenerateSegmentSummaryCsv(FALSE)
    \/ LeadTimeAfterWeek
    \/ LeadTimeReport
    \/ MonthAfterLeadTime
    \/ MonthReport
    \/ Return

SpecReports == InitReports /\ [][NextReports]_vars

\* The segment summary called at any point after the cleaning, before the
\* coercions of the shared df or after them.
NextReordered ==
    \/ Clean
    \/ PrepareTemporal
    \/ PrepareAdr
    \/ PrepareLeadTime
    \/ GenerateSegmentSummaryCsv(TRUE)
    \/ Return

SpecReordered == InitReports /\ [][NextReordered]_vars

\* The lead-time report and the month report of data with an origin named
\* 'Total'.
InitMonthTotal == InitWith({Main}, MonthTotalDatasets)

SpecMonthTotal == InitMonthTotal /\ [][NextLead]_vars

\* The segment summary of data whose is_canceled may be neither 0 nor 1.
InitSegment == InitWith({Main}, SegmentDatasets)

NextSegment ==
    \/ Clean
    \/ PrepareAdr
    \/ GenerateSegmentSummaryCsv(FALSE)
    \/ Return

SpecSegment == InitSegment /\ [][NextSegment]_vars

\* The first table of the timeline script of data whose names may have a
\* hyphen in them.
InitLabel == InitWith({Timeline}, LabelDatasets)

NextLabel ==
    \/ Clean
    \/ PrepareTimeline
    \/ Timeline1
    \/ Return

SpecLabel == InitLabel /\ [][NextLabel]_vars

\* ------------------------------------------------------------------
\* Vocabulary of the properties

Wide == "generate_cancellation_csv"
Long == "generate_cancellation_csv_long"
Rate == "generate_cancel_rate_csv"

Returned(fn) == call.fn = fn /\ result.error = ""

HasOrigin == "origin" \in Range(call.groupby_cols)

OtherCols == SelectSeq(call.groupby_cols, LAMBDA c : c # "origin")

\* The header a grouping column is written under.
Shown(c) == IF c = "hotel" THEN "Hotel" ELSE IF c = "origin" THEN "Origin" ELSE c

ShownKey(row, cols) == [i \in 1..Len(cols) |-> row[Shown(cols[i])]]

IsTotalRow(row) == "Origin" \in DOMAIN row /\ row["Origin"] = "Total"

\* A count cell of a row; a status without a column has no bookings.
CountCell(row, c) == IF c \in DOMAIN row THEN row[c] ELSE 0

\* The records of df with the given values in cols and the given status.
RecordsWith(cols, k, status) ==
    {i \in 1..Len(df) : KeyOf(df[i], cols) = k /\ df[i]["Status"] = status}

\* The records of df none of whose cells in cols is missing.
Keyed(cols) ==
    {i \in 1..Len(df) : \A c \in Range(cols) : df[i][c] # NULL}

StatusKnown == \A i \in 1..Len(df) : df[i]["Status"] # NULL

Triples == [i \in 1..Len(df) |->
               <<df[i]["hotel"], df[i]["origin"], df[i]["is_canceled"]>>]

ScenarioCall ==
    /\ call = [fn |-> Wide, groupby_cols |-> <<"hotel", "origin">>]
    /\ Triples = << <<"A", "X", 0>>, <<"A", "X", 1>>,
                    <<"A", "Y", 1>>, <<"B", "X", 0>> >>

WideColumns ==
    <<"Hotel", "Origin", "Canceled", "Not Canceled", "Canceled %", "Not Canceled %">>

\* C1: on the four records (A,X,0), (A,X,1), (A,Y,1), (B,X,0) grouped by
\* hotel and origin the wide table has (A,X) 1 and 1 at 50.00 each, (A,Y)
\* canceled 1 at 100 and not canceled 0 at 0, (B,X) not canceled 1 at 100 and
\* canceled 0 at 0, and the Total row of hotel A has canceled 2, not canceled
\* 1 and Canceled % 66.67.
C1_EndToEndScenario ==
    ScenarioCall =>
        /\ result.error = ""
        /\ \A h \in {"A", "B"}, o \in {"X", "Y", "Total"} :
              Cardinality({i \in 1..Len(result.rows) :
                              /\ result.rows[i]["Hotel"] = h
                              /\ result.rows[i]["Origin"] = o})
                 = IF <<h, o>> = <<"B", "Y">> THEN 0 ELSE 1
        /\ \A i \in 1..Len(result.rows) :
              LET row == result.rows[i]
                  at == <<row["Hotel"], row["Origin"]>>
              IN  /\ at = <<"A", "X">> =>
                        row = MkRow(WideColumns, <<"A", "X", 1, 1, 5000, 5000>>)
                  /\ at = <<"A", "Y">> =>
                        row = MkRow(WideColumns, <<"A", "Y", 1, 0, 10000, 0>>)
                  /\ at = <<"B", "X">> =>
                        row = MkRow(WideColumns, <<"B", "X", 0, 1, 0, 10000>>)
                  /\ at = <<"A", "Total">> =>
                        /\ row["Canceled"] = 2
                        /\ row["Not Canceled"] = 1
                        /\ row["Canceled %"] = 6667

C1_Witness ==
    /\ ScenarioCall
    /\ \E i \in 1..Len(result.rows) :
          /\ result.rows[i]["Hotel"] = "A"
          /\ result.rows[i]["Origin"] = "Total"

\* C2: a call of generate_cancellation_csv with 'origin' among the grouping
\* columns has, for every combination of the other grouping columns seen in
\* the records, a row with origin 'Total' whose Canceled and Not Canceled
\* counts are the numbers of canceled and of not canceled records of that
\* combination over all its origin values.
C2_TotalRowPerCombination ==
    (call.fn = Wide /\ HasOrigin) =>
        \A k \in {KeyOf(df[i], OtherCols) :
                     i \in {j \in Keyed(call.groupby_cols) :
                               df[j]["Status"] # NULL}} :
            \E n \in 1..Len(result.rows) :
                LET row == result.rows[n]
                IN  /\ IsTotalRow(row)
                    /\ ShownKey(row, OtherCols) = k
                    /\ row["Canceled"] =
                          Cardinality(RecordsWith(OtherCols, k, "Canceled")
                                        \cap Keyed(call.groupby_cols))
                    /\ row["Not Canceled"] =
                          Cardinality(RecordsWith(OtherCols, k, "Not canceled")
                                        \cap Keyed(call.groupby_cols))

\* C3: every percentage of a Total row is the rounded share of the row's
\* status count in the sum of the counts of both statuses of its combination
\* of the other grouping columns, in the wide table and in the long one.
C3_TotalPercentageFromCounts ==
    /\ (Returned(Wide) /\ HasOrigin) =>
          \A n \in 1..Len(result.rows) :
              LET row == result.rows[n]
                  both == row["Canceled"] + row["Not Canceled"]
              IN  IsTotalRow(row) =>
                     /\ row["Canceled %"] = Round2(row["Canceled"], both)
                     /\ row["Not Canceled %"] = Round2(row["Not Canceled"], both)
    /\ (Returned(Long) /\ HasOrigin) =>
          \A n \in 1..Len(result.rows) :
              LET row == result.rows[n]
                  same == SelectSeq(result.rows,
                             LAMBDA r : /\ IsTotalRow(r)
                                        /\ ShownKey(r, OtherCols)
                                              = ShownKey(row, OtherCols))
              IN  IsTotalRow(row) =>
                     row["Percentage"] =
                        Round2(row["Count"], SumColumn(same, "Count"))

\* C4: in every row of the wide table of a call with grouping columns, each
\* status percentage is the rounded share of that status count in the sum of
\* the Canceled and Not Canceled counts of the row.
C4_RowPercentageFromRowCounts ==
    (Returned(Wide) /\ call.groupby_cols # <<>>) =>
        \A n \in 1..Len(result.rows) :
            LET row == result.rows[n]
                group_total == CountCell(row, "Canceled")
                                  + CountCell(row, "Not Canceled")
            IN  /\ "Canceled %" \in DOMAIN row =>
                      row["Canceled %"] = Round2(row["Canceled"], group_total)
                /\ "Not Canceled %" \in DOMAIN row =>
                      row["Not Canceled %"] =
                         Round2(row["Not Canceled"], group_total)

\* The bookings a row of a report counts.
RowCount(row) ==
    IF call.fn = Wide
    THEN IF call.groupby_cols = <<>> THEN row["Value"]
         ELSE CountCell(row, "Canceled") + CountCell(row, "Not Canceled")
    ELSE IF call.fn = Long THEN row["Count"] ELSE row["total"]

\* C5: the counts of the groups of a report, Total rows left out, add up to
\* the number of records passed in, also when a record has a missing value
\* in a grouping column; stated of datasets whose records all have a status.
C5_CountsSumToRecords ==
    ((Returned(Wide) \/ Returned(Long) \/ Returned(Rate)) /\ StatusKnown) =>
        LET groups == SelectSeq(result.rows, LAMBDA r : ~ IsTotalRow(r))
            RECURSIVE SumTo(_)
            SumTo(n) == IF n = 0 THEN 0 ELSE RowCount(groups[n]) + SumTo(n - 1)
        IN  SumTo(Len(groups)) = Len(df)

\* C6: apart from Total rows the wide table has exactly one row for each
\* combination of grouping values that occurs in the records and no other
\* row, and a column for a status only if a record has that status.
C6_NoPhantomGroups ==
    (Returned(Wide) /\ call.groupby_cols # <<>>) =>
        LET groups == SelectSeq(result.rows, LAMBDA r : ~ IsTotalRow(r))
            occurring == {KeyOf(df[i], call.groupby_cols) :
                             i \in Keyed(call.groupby_cols)}
        IN  /\ \A k \in occurring :
                  Cardinality({n \in 1..Len(groups) :
                      ShownKey(groups[n], call.groupby_cols) = k}) = 1
            /\ \A n \in 1..Len(groups) :
                  ShownKey(groups[n], call.groupby_cols) \in occurring
            /\ "Canceled" \in Range(result.columns) =>
                  \E i \in 1..Len(df) : df[i]["Status"] = "Canceled"
            /\ "Not Canceled" \in Range(result.columns) =>
                  \E i \in 1..Len(df) : df[i]["Status"] = "Not canceled"

\* The dataset a bookings pivot is made from, and the row and the column a
\* record counts under in it.
PivotFns == {"temporal_pivot", "weekly_pivot", "timeline_1"}

PivotSource == IF script = Timeline THEN df ELSE df_temporal

PivotKey(r) ==
    IF call.fn = "timeline_1" THEN <<r["hotel"] \o "-" \o r["origin"]>>
    ELSE KeyOf(r, call.groupby_cols)

PivotDate(r) ==
    IF call.fn = "temporal_pivot" THEN r["dia"][1]
    ELSE IF call.fn = "weekly_pivot" THEN WeekStart(r["dia"][1])
    ELSE StrfTime(WeekStart(r["dia"][1]))

\* C7: in the status pivot of generate_cancellation_csv a row's count and
\* percentage under a status that no record of the row's grouping values has
\* are 0, and in the daily and weekly bookings pivots the cell of a row under
\* a date on which no record of the row's key falls is 0; no such cell is
\* missing.
C7_MissingCellsZero ==
    /\ (Returned(Wide) /\ call.groupby_cols # <<>>) =>
          \A n \in 1..Len(result.rows) :
              LET row == result.rows[n]
                  k == ShownKey(row, call.groupby_cols)
                  Empty(status) == RecordsWith(call.groupby_cols, k, status) = {}
              IN  ~ IsTotalRow(row) =>
                     /\ ("Canceled" \in DOMAIN row /\ Empty("Canceled")) =>
                           row["Canceled"] = 0 /\ row["Canceled %"] = 0
                     /\ ("Not Canceled" \in DOMAIN row /\ Empty("Not canceled")) =>
                           row["Not Canceled"] = 0 /\ row["Not Canceled %"] = 0
    /\ (call.fn \in PivotFns /\ result.error = "") =>
          \A n \in 1..Len(result.rows) :
              \A t \in Range(result.labels) :
                  LET row == result.rows[n]
                      here == {i \in 1..Len(PivotSource) :
                                 /\ PivotKey(PivotSource[i]) = row.key
                                 /\ PivotDate(PivotSource[i]) = t}
                  IN  /\ t \in DOMAIN row.cells
                      /\ here = {} => row.cells[t] = 0

C7_Witness ==
    /\ call.fn = "temporal_pivot"
    /\ \E n \in 1..Len(result.rows) :
          \E t \in Range(result.labels) :
              /\ result.rows[n].cells[t] = 0
              /\ \A i \in 1..Len(df_temporal) :
                    \/ KeyOf(df_temporal[i], call.groupby_cols) # result.rows[n].key
                    \/ df_temporal[i]["dia"][1] # t

\* The groups of lead times: first value, last value, label.
BucketTable ==
    << <<0, 0, "0">>, <<1, 7, "1-7">>, <<8, 15, "8-15">>, <<16, 30, "16-30">>,
       <<31, 90, "31-90">>, <<91, 180, "91-180">>, <<181, 365, "181-365">> >>

\* The label the table gives a lead time of 0 or more.
BucketOf(n) ==
    IF n >= 366 THEN "+365"
    ELSE (CHOOSE b \in Range(BucketTable) : b[1] <= n /\ n <= b[2])[3]

\* C8: categorize_lead_time gives every lead time of 0 or more one label, the
\* one of the group whose first and last values enclose it: '0' for 0, '1-7'
\* for 1 to 7, '8-15' for 8 to 15, '16-30' for 16 to 30, '31-90' for 31 to
\* 90, '91-180' for 91 to 180, '181-365' for 181 to 365, and '+365' for 366
\* and more.
C8_LeadTimeBuckets ==
    "df_lead_time" \in defined =>
        \A i \in 1..Len(df_lead_time) :
            LET n == df_lead_time[i]["lead_time"][1]
                g == df_lead_time[i]["lead_time_group"]
            IN  n >= 0 =>
                   /\ g \in Range(lead_time_order)
                   /\ \A b \in Range(BucketTable) :
                         (g = b[3]) <=> (b[1] <= n /\ n <= b[2])
                   /\ (g = "+365") <=> (n >= 366)

C8_Witness ==
    /\ "df_lead_time" \in defined
    /\ \E i \in 1..Len(df_lead_time) :
          /\ df_lead_time[i]["lead_time"] = <<365>>
          /\ df_lead_time[i]["lead_time_group"] = "181-365"

\* C9: the rows of the lead-time report come in the order of their group in
\* the list 0, 1-7, 8-15, 16-30, 31-90, 91-180, 181-365, +365, and the rows
\* of the month report in the order of their month from January to December,
\* whatever the order of the labels as text.
C9_EnumerationOrder ==
    /\ Returned("lead_time_result") =>
          \A i, j \in 1..Len(result.rows) :
              i < j => IndexOf(lead_time_order, result.rows[i]["Lead Time"])
                          <= IndexOf(lead_time_order, result.rows[j]["Lead Time"])
    /\ Returned("month_result") =>
          \A i, j \in 1..Len(result.rows) :
              i < j => IndexOf(month_order, result.rows[i]["Month"])
                          <= IndexOf(month_order, result.rows[j]["Month"])

C9_Witness ==
    /\ Returned("lead_time_result")
    /\ \E i, j \in 1..Len(result.rows) :
          /\ i < j
          /\ result.rows[i]["Lead Time"] = "8-15"
          /\ result.rows[j]["Lead Time"] = "16-30"

\* The records of df that a row of the lead-time report stands for: those of
\* its hotel and origin (of any origin for a Total row) whose lead time is a
\* number of 0 or more of the row's group.
LeadRecords(row) ==
    {i \in 1..Len(df) :
        /\ df[i]["hotel"] = row["Hotel"]
        /\ row["Origin"] # "Total" => df[i]["origin"] = row["Origin"]
        /\ df[i]["lead_time"] # <<>>
        /\ df[i]["lead_time"][1] >= 0
        /\ BucketOf(df[i]["lead_time"][1]) = row["Lead Time"]}

\* C10: every row of the lead-time report stands for at least one record
\* whose lead time is a number of 0 or more, and its rate is the share of
\* canceled records among those records alone, so that a '+365' row counts
\* only records with a lead time of 366 or more; records with a negative or
\* missing lead time add to no row.
C10_NegativeOrNullExcluded ==
    Returned("lead_time_result") =>
        \A n \in 1..Len(result.rows) :
            LET row == result.rows[n]
                recs == LeadRecords(row)
                canceled == {i \in recs : df[i]["is_canceled"] = 1}
            IN  /\ recs # {}
                /\ row["% Cancellations"]
                      = Round2(Cardinality(canceled), Cardinality(recs))

\* The bookings of status 0 or 1 among the records of df of the week, hotel
\* and origin of record i: the denominator of the group's weekly rate.
WeeklyDenominator(i) ==
    Cardinality({j \in 1..Len(df) :
        /\ df[j]["week"] = df[i]["week"]
        /\ df[j]["hotel"] = df[i]["hotel"]
        /\ df[j]["origin"] = df[i]["origin"]
        /\ df[j]["is_canceled"] \in {0, 1}})

\* C11: no rate of an output is undefined, and a group whose denominator is
\* zero has the rate 0 in the output: in timeline_3 a week, hotel and origin
\* with records but none of status 0 or 1 has its cell, holding 0; the
\* weekly cancel rates of tables 50 and 51 and the Total-row percentages of
\* generate_cancellation_csv are defined numbers.
C11_ZeroDenominatorRateZero ==
    /\ Returned("timeline_3") =>
          /\ \A n \in 1..Len(result.rows) :
                \A t \in Range(result.labels) :
                    result.rows[n].cells[t] \notin {NaN, Inf}
          /\ \A i \in 1..Len(df) :
                WeeklyDenominator(i) = 0 =>
                    \E n \in 1..Len(result.rows) :
                        /\ result.rows[n].key
                              = <<df[i]["hotel"] \o "-" \o df[i]["origin"]>>
                        /\ StrfTime(df[i]["week"]) \in Range(result.labels)
                        /\ result.rows[n].cells[StrfTime(df[i]["week"])] = 0
    /\ Returned("weekly_cancel_pivot") =>
          \A n \in 1..Len(result.rows) :
              result.rows[n]["cancel_rate"] \notin {NaN, Inf}
    /\ (Returned(Wide) /\ HasOrigin) =>
          \A n \in 1..Len(result.rows) :
              IsTotalRow(result.rows[n]) =>
                 /\ result.rows[n]["Canceled %"] \notin {NaN, Inf}
                 /\ result.rows[n]["Not Canceled %"] \notin {NaN, Inf}

\* C12: generate_cancellation_csv and generate_cancellation_csv_long called
\* on a dataset without records return a table without rows and raise no
\* error, whatever the grouping columns, 'origin' among them or not.
C12_EmptyDatasetEmptyTable ==
    (call.fn \in {Wide, Long} /\ Len(df) = 0) =>
        /\ result.error = ""
        /\ result.rows = <<>>

\* C13: every report computation returns a table and raises no error, also
\* on a dataset in which only one cancellation status occurs: the Total rows
\* of generate_cancellation_csv, the weekly cancellation tables and the
\* weekly cancel rate of timeline_3.
C13_ReportsNeverFail ==
    call # NoCall => result.error = ""

\* C14: in the wide and the long table of a call with 'origin' among the
\* grouping columns, the Total rows of a combination of the other grouping
\* columns come after every row of a named origin of that combination, and
\* two combinations come in the same order among the Total rows as among the
\* rows of named origins.
C14_TotalRowsAfterNamed ==
    ((Returned(Wide) \/ Returned(Long)) /\ HasOrigin) =>
        LET n == Len(result.rows)
            key(i) == ShownKey(result.rows[i], OtherCols)
            total(i) == IsTotalRow(result.rows[i])
        IN  /\ \A i, j \in 1..n :
                  (total(i) /\ ~ total(j) /\ key(i) = key(j)) => j < i
            /\ \A i, j, a, b \in 1..n :
                  (/\ total(i) /\ total(j) /\ i < j /\ key(i) # key(j)
                   /\ ~ total(a) /\ ~ total(b)
                   /\ key(a) = key(i) /\ key(b) = key(j)) => a < b

C14_Witness ==
    /\ Returned(Wide)
    /\ call.groupby_cols = <<"hotel", "origin">>
    /\ \E i, j \in 1..Len(result.rows) :
          /\ i < j
          /\ IsTotalRow(result.rows[i]) /\ IsTotalRow(result.rows[j])
          /\ result.rows[i]["Hotel"] = "A" /\ result.rows[j]["Hotel"] = "B"

\* C15: a call of generate_cancellation_csv or
\* generate_cancellation_csv_long with 'origin' as the only grouping column
\* on a dataset that has records returns a table with exactly one row whose
\* origin is 'Total'.
C15_OneTotalRow ==
    (/\ call.fn \in {Wide, Long}
     /\ call.groupby_cols = <<"origin">>
     /\ Len(df) > 0) =>
        /\ result.error = ""
        /\ Cardinality({n \in 1..Len(result.rows) : IsTotalRow(result.rows[n])}) = 1

\* The records of the csv with the given values in cols.
CsvGroup(cols, k) == {i \in 1..Len(csv) : KeyOf(csv[i], cols) = k}

Unparsable(i) == ~ csv[i]["is_canceled"].ok

\* C19: a record whose is_canceled does not parse counts as not canceled: in
\* the status counts of generate_cancellation_csv it is one of the
\* 'Not Canceled' bookings of its group and none of the 'Canceled' ones, and
\* in generate_cancel_rate_csv it adds 1 to the total of its group and
\* nothing to its canceled count.
C19_UnparsableNotCanceled ==
    /\ (Returned(Wide) /\ call.groupby_cols # <<>>) =>
          \A n \in 1..Len(result.rows) :
              LET row == result.rows[n]
                  group == IF IsTotalRow(row)
                           THEN {i \in CsvGroup(OtherCols, ShownKey(row, OtherCols)) :
                                    csv[i]["origin"] # NULL}
                           ELSE CsvGroup(call.groupby_cols,
                                         ShownKey(row, call.groupby_cols))
              IN  /\ CountCell(row, "Not Canceled") =
                        Cardinality({i \in group :
                            Unparsable(i) \/ csv[i]["is_canceled"].v = 0})
                  /\ CountCell(row, "Canceled") =
                        Cardinality({i \in group :
                            ~ Unparsable(i) /\ csv[i]["is_canceled"].v = 1})
    /\ (Returned(Rate) /\ call.groupby_cols # <<>>) =>
          \A n \in 1..Len(result.rows) :
              LET row == result.rows[n]
                  group == CsvGroup(call.groupby_cols,
                                    KeyOf(row, call.groupby_cols))
                  parsed == {i \in group : ~ Unparsable(i)}
                  RECURSIVE Sum(_)
                  Sum(S) == IF S = {} THEN 0
                            ELSE LET i == CHOOSE x \in S : TRUE
                                 IN  csv[i]["is_canceled"].v + Sum(S \ {i})
              IN  /\ row["total"] = Cardinality(group)
                  /\ row["canceled"] = Sum(parsed)

C19_Witness ==
    /\ Returned(Rate)
    /\ call.groupby_cols = <<"hotel">>
    /\ \E i, j \in 1..Len(csv) :
          /\ Unparsable(i)
          /\ ~ Unparsable(j) /\ csv[j]["is_canceled"].v = 1
          /\ csv[i]["hotel"] = csv[j]["hotel"]

\* c / n * 100 to two decimals, a half rounded up, in hundredths.
HalfUp(c, n) == (2 * c * 10000 + n) \div (2 * n)

\* C17: every percentage and rate of an output is the share of its count c
\* in its total n > 0 rounded to two decimals with a half rounded up,
\* floor(c * 10000 / n + 1/2) / 100: the percentages of the rows of
\* generate_cancellation_csv, Total rows included, and the cancel rates of
\* generate_cancel_rate_csv.
C17_HalfUpRounding ==
    /\ (Returned(Wide) /\ call.groupby_cols # <<>>) =>
          \A n \in 1..Len(result.rows) :
              LET row == result.rows[n]
                  total == CountCell(row, "Canceled") + CountCell(row, "Not Canceled")
              IN  /\ "Canceled %" \in DOMAIN row =>
                        row["Canceled %"] = HalfUp(row["Canceled"], total)
                  /\ "Not Canceled %" \in DOMAIN row =>
                        row["Not Canceled %"] = HalfUp(row["Not Canceled"], total)
    /\ Returned(Rate) =>
          \A n \in 1..Len(result.rows) :
              result.rows[n]["cancel_rate"]
                 = HalfUp(result.rows[n]["canceled"], result.rows[n]["total"])

AdrSummary == "generate_adr_summary_csv"

\* C16: called with an empty list of grouping columns on a dataset that is
\* not empty, generate_cancellation_csv, generate_cancel_rate_csv and
\* generate_adr_summary_csv each return a single row, the aggregate of the
\* whole dataset.
C16_EmptyGroupbySingleRow ==
    (/\ call.fn \in {Wide, Rate, AdrSummary}
     /\ call.groupby_cols = <<>>
     /\ result.error = ""
     /\ csv # <<>>)
    => Len(result.rows) = 1

\* The field of the csv a report needs parsed.
Needs(fn) ==
    IF fn \in {"temporal_pivot", "weekly_pivot", "month_result"} THEN {"dia"}
    ELSE IF fn = "lead_time_result" THEN {"lead_time"}
    ELSE IF fn \in {"generate_adr_csv", AdrSummary} THEN {"adr"}
    ELSE {}

\* The records of the csv a report is made from, and the canceled ones.
Included(fn) == {i \in 1..Len(csv) : \A f \in Needs(fn) : csv[i][f].ok}

IncludedCanceled(fn) == {i \in Included(fn) : csv[i]["is_canceled"].v = 1}

\* C18: a record with an unparsable dia, lead_time or adr is left out of
\* the reports that need the field and of no other.  Stated of records of
\* one hotel, origin, date and lead-time group, where each table has one
\* group: every report is made from exactly the records whose needed field
\* parses (n of them, c canceled), that is, the counts of the cancellation,
\* cancel-rate and segment-summary tables are those of all records, the
\* cells of the daily and weekly pivots count the records with a date, the
\* rates of the month and lead-time reports are c / n over the records with
\* a date or a lead time, and the ADR tables have the records with an adr.
C18_ExcludedOnlyWhereNeeded ==
    LET n == Cardinality(Included(call.fn))
        c == Cardinality(IncludedCanceled(call.fn))
        rows == result.rows
        Each(P(_)) == \A r \in 1..Len(rows) : P(rows[r])
    IN  (call # NoCall /\ result.error = "") =>
        /\ (n = 0 /\ call.fn # AdrSummary) => rows = <<>>
        /\ (n > 0) => rows # <<>>
        /\ (call.fn = Wide /\ call.groupby_cols # <<>>) =>
              Each(LAMBDA row : /\ CountCell(row, "Canceled") = c
                                /\ CountCell(row, "Not Canceled") = n - c)
        /\ (call.fn = Wide /\ call.groupby_cols = <<>>) =>
              Each(LAMBDA row : row["Value"] = IF row["Status"] = "Canceled"
                                               THEN c ELSE n - c)
        /\ (call.fn = Rate /\ call.groupby_cols # <<>>) =>
              Each(LAMBDA row : row["total"] = n /\ row["canceled"] = c)
        /\ (call.fn = Rate /\ call.groupby_cols = <<>>) =>
              Each(LAMBDA row : row["total"] = IF row["Status"] = "Canceled"
                                               THEN c ELSE n - c)
        /\ call.fn = "generate_segment_summary_csv" =>
              Each(LAMBDA row : /\ row["total_bookings"] = n
                                /\ row["canceled_bookings"] = c
                                /\ row["not_canceled_bookings"] = n - c)
        /\ call.fn \in {"temporal_pivot", "weekly_pivot"} =>
              Each(LAMBDA row : \A t \in DOMAIN row.cells : row.cells[t] = n)
        /\ call.fn = "lead_time_result" =>
              Each(LAMBDA row : row["% Cancellations"] = Round2(c, n))
        /\ call.fn = "month_result" =>
              Each(LAMBDA row : row["A"] = Round2(c, n))
        /\ call.fn = "generate_adr_csv" => Len(rows) = n
        /\ call.fn = AdrSummary =>
              Each(LAMBDA row : row["statistic"] = "count" => row["value"] = n)

\* The lead-time report of a dataset with a record whose date and adr cannot
\* be parsed but whose lead time can, and a record whose lead time cannot.
C18_Witness ==
    /\ Returned("lead_time_result")
    /\ result.rows # <<>>
    /\ \E i \in 1..Len(csv) :
          ~csv[i]["dia"].ok /\ ~csv[i]["adr"].ok /\ csv[i]["lead_time"].ok
    /\ \E i \in 1..Len(csv) : ~csv[i]["lead_time"].ok

\* The shared df after line 425, whether or not the line has run yet.
AdrCoerced ==
    [i \in 1..Len(df) |->
        [df[i] EXCEPT !["adr"] = IF "adr" \in defined THEN @ ELSE ToNumeric(@)]]

\* C20: a report's table depends only on the csv and the parameters of the
\* report, not on which coercions of the shared df have run before it:
\* generate_segment_summary_csv, called at any point after the cleaning,
\* returns the table it returns in the order of the script, after line 425.
C20_SameTableInAnyOrder ==
    call.fn = "generate_segment_summary_csv" =>
        result \in generate_segment_summary_csv(AdrCoerced, call.groupby_cols, TRUE)

\* The shared df as the loading and the initial cleaning leave it.
Cleaned == [i \in 1..Len(csv) |-> CleanRow(csv[i], TRUE)]

\* C21: after the initial cleaning the shared df of the main script keeps
\* its records, its columns and its field values whatever reports and report
\* sections have run: none of them adds a column to it, removes a row from
\* it or rewrites a field of it.
C21_SharedDatasetUnchanged ==
    (script = Main /\ "is_canceled" \in defined) => df = Cleaned

\* The strings of the form YYYY-MM-DD: the dates of the model's calendar.
DateStrings == {StrfTime(day) : day \in 0..367}

\* C22: every week label of a weekly output table is a date string
\* YYYY-MM-DD without a time of day: the column labels written for the
\* weekly bookings pivots of prepare_flourish_data.py (tables 47 to 49), the
\* week cells of its weekly cancellation tables (50 and 51), and the column
\* labels of the timeline tables.
C22_WeekLabelsAreDates ==
    /\ Returned("weekly_pivot") =>
          \A label \in Range(to_csv_header(result)) : label \in DateStrings
    /\ Returned("weekly_cancel_pivot") =>
          \A n \in 1..Len(result.rows) :
              StrfTime(result.rows[n]["week"]) \in DateStrings
    /\ (call.fn \in {"timeline_1", "timeline_3"} /\ result.error = "") =>
          \A label \in Range(result.labels) : label \in DateStrings

\* The day a date string names.
DayOf(label) == CHOOSE day \in 0..367 : StrfTime(day) = label

StatusColumns == <<"Canceled", "Not Canceled", "Canceled %", "Not Canceled %">>

\* The status columns a wide table must have: those of the statuses that
\* the records counted in the table have.
ObservedStatusColumns ==
    LET has(status) == \E i \in Keyed(call.groupby_cols) : df[i]["Status"] = status
    IN  SelectSeq(StatusColumns,
                  LAMBDA c : IF c \in {"Canceled", "Canceled %"}
                             THEN has("Canceled") ELSE has("Not canceled"))

\* C23: a pivoted table has its row-key columns first, in the order of the
\* call, and then the pivoted columns in their natural order: in the status
\* pivot of generate_cancellation_csv Canceled, Not Canceled, Canceled %,
\* Not Canceled %, those that exist; in the daily and weekly pivots and in
\* timeline_1 (whose key column is Label) the dates, strictly increasing.
C23_ColumnOrder ==
    /\ (Returned(Wide) /\ call.groupby_cols # <<>>) =>
          result.columns
             = [i \in 1..Len(call.groupby_cols) |-> Shown(call.groupby_cols[i])]
                  \o ObservedStatusColumns
    /\ Returned("temporal_pivot") \/ Returned("weekly_pivot") =>
          /\ result.columns = call.groupby_cols
          /\ \A i, j \in 1..Len(result.labels) :
                i < j => result.labels[i] < result.labels[j]
    /\ Returned("timeline_1") =>
          /\ result.columns = <<"Label">>
          /\ \A i, j \in 1..Len(result.labels) :
                i < j => DayOf(result.labels[i]) < DayOf(result.labels[j])

\* A wide table by hotel and origin with all four status columns.
C23_Witness ==
    /\ Returned(Wide)
    /\ call.groupby_cols = <<"hotel", "origin">>
    /\ Len(result.columns) = 6
    /\ Len(result.rows) >= 2

\* The records of df with the key k in the other grouping columns, the
\* origin o and the status.
OriginRecords(k, o, status) ==
    {i \in RecordsWith(OtherCols, k, status) : df[i]["origin"] = o}

\* The rows of the table with the key k and the origin o.
OriginRows(k, o) ==
    {n \in 1..Len(result.rows) :
        /\ ShownKey(result.rows[n], OtherCols) = k
        /\ result.rows[n]["Origin"] = o}

WideCounts(n, canceled, not_canceled) ==
    /\ CountCell(result.rows[n], "Canceled") = canceled
    /\ CountCell(result.rows[n], "Not Canceled") = not_canceled

\* C24: in the tables by origin of generate_cancellation_csv and
\* generate_cancellation_csv_long every origin string of the data, 'Total'
\* included, is a category of its own: the records of an origin within a
\* combination of the other grouping columns have their own row (wide) or
\* their own row per status (long) with their counts, the Total row of the
\* combination counts them, and a row of the data's origin 'Total' stands
\* beside the synthetic Total row of its combination, not merged with it.
C24_UnknownOriginOrdinary ==
    (call.fn \in {Wide, Long} /\ result.error = "" /\ HasOrigin) =>
        \A i \in 1..Len(df) :
            LET k == KeyOf(df[i], OtherCols)
                o == df[i]["origin"]
                D(status) == Cardinality(OriginRecords(k, o, status))
                T(status) == Cardinality(RecordsWith(OtherCols, k, status))
                S == OriginRows(k, o)
                Totals == OriginRows(k, "Total")
            IN  IF call.fn = Wide
                THEN /\ \E a \in S :
                          /\ WideCounts(a, D("Canceled"), D("Not canceled"))
                          /\ \E b \in Totals \ {a} :
                                WideCounts(b, T("Canceled"), T("Not canceled"))
                     /\ Cardinality(S) = IF o = "Total" THEN 2 ELSE 1
                     /\ Cardinality(Totals) = IF o = "Total" THEN 2
                                              ELSE IF \E j \in 1..Len(df) :
                                                        /\ KeyOf(df[j], OtherCols) = k
                                                        /\ df[j]["origin"] = "Total"
                                                   THEN 2 ELSE 1
                ELSE \A status \in {"Canceled", "Not canceled"} :
                        LET Ss == {n \in S : result.rows[n]["Status"] = status}
                            Ts == {n \in Totals : result.rows[n]["Status"] = status}
                        IN  /\ D(status) > 0 =>
                                 \E a \in Ss :
                                    /\ result.rows[a]["Count"] = D(status)
                                    /\ \E b \in Ts \ {a} :
                                          result.rows[b]["Count"] = T(status)
                            /\ T(status) > 0 =>
                                 \E b \in Ts : result.rows[b]["Count"] = T(status)
                            /\ D(status) = 0 => (o # "Total" => Ss = {})
                            /\ Cardinality(Ts) =
                                  (IF T(status) > 0 THEN 1 ELSE 0)
                                  + (IF OriginRecords(k, "Total", status) # {}
                                     THEN 1 ELSE 0)

\* A long table by hotel and origin of data in which a hotel has records of
\* the origin 'Total' and of another origin.
C24_Witness ==
    /\ Returned(Long)
    /\ call.groupby_cols = <<"hotel", "origin">>
    /\ \E i, j \in 1..Len(df) :
          /\ df[i]["hotel"] = df[j]["hotel"]
          /\ df[i]["origin"] = "Total"
          /\ df[j]["origin"] = "X"
          /\ df[i]["Status"] = df[j]["Status"]

\* C25: in the long table of a call with 'origin' among the grouping
\* columns, the count of every Total row equals the sum of the counts of the
\* rows of named origins that have the same values in the other grouping
\* columns and the same Status, also when records have no origin.
C25_LongTotalIsSumOfNamed ==
    (Returned(Long) /\ HasOrigin) =>
        \A n \in 1..Len(result.rows) :
            LET row == result.rows[n]
                named == SelectSeq(result.rows,
                            LAMBDA r : /\ ~IsTotalRow(r)
                                       /\ ShownKey(r, OtherCols) = ShownKey(row, OtherCols)
                                       /\ r["Status"] = row["Status"])
            IN  IsTotalRow(row) => row["Count"] = SumColumn(named, "Count")

\* round(canceled / all * 100, 2) over the rows of d that P holds of.
RateOver(d, P(_)) ==
    LET all == {i \in 1..Len(d) : P(d[i])}
        canceled == {i \in all : d[i]["is_canceled"] = 1}
    IN  Round2(Cardinality(canceled), Cardinality(all))

\* C26: in the lead-time report and in the month report the cancel rate of a
\* row with origin 'Total' is round(canceled / all * 100, 2) over all the
\* records of its lead-time group and hotel, or of its hotel and month,
\* whatever their origin; the pivot of the month report on hotel leaves the
\* rate as it was computed.
C26_TotalRateOverAllRecords ==
    /\ Returned("lead_time_result") =>
          \A n \in 1..Len(result.rows) :
              LET row == result.rows[n]
              IN  row["Origin"] = "Total" =>
                     row["% Cancellations"] =
                        RateOver(df_lead_time,
                                 LAMBDA r : /\ r["lead_time_group"] = row["Lead Time"]
                                            /\ r["hotel"] = row["Hotel"])
    /\ Returned("month_result") =>
          \A n \in 1..Len(result.rows) :
              LET row == result.rows[n]
              IN  row["Origin"] = "Total" =>
                     \A h \in DOMAIN row \ {"Origin", "Month"} :
                        (\E i \in 1..Len(df_month) :
                            /\ df_month[i]["hotel"] = h
                            /\ df_month[i]["month_name"] = row["Month"])
                        => row[h] = RateOver(df_month,
                                       LAMBDA r : /\ r["hotel"] = h
                                                  /\ r["month_name"] = row["Month"])

\* The wide table of the dataframe and grouping columns of the present call.
WideOfCall == generate_cancellation_csv(df, call.groupby_cols)

\* The count and the percentage columns of a status in the wide table.
WideCountColumn(status) == IF status = "Canceled" THEN "Canceled" ELSE "Not Canceled"

WidePercentageColumn(status) == WideCountColumn(status) \o " %"

\* A long row and a wide row with the same key say the same of a status.
SameCell(long_row, wide_row) ==
    IF "Status" \in DOMAIN wide_row
    THEN /\ wide_row["Status"] = long_row["Status"]
         /\ wide_row["Value"] = long_row["Count"]
         /\ wide_row["Percentage"] = long_row["Percentage"]
    ELSE /\ ShownKey(wide_row, call.groupby_cols)
                = ShownKey(long_row, call.groupby_cols)
         /\ WideCountColumn(long_row["Status"]) \in DOMAIN wide_row
         /\ wide_row[WideCountColumn(long_row["Status"])] = long_row["Count"]
         /\ wide_row[WidePercentageColumn(long_row["Status"])]
                = long_row["Percentage"]

\* C27: for every dataset and every list of grouping columns the wide table
\* and the long table agree: every long row (key, Status, count, percentage),
\* Total rows included, has the count and the percentage of the wide cell of
\* its key and Status, and a wide cell that holds 0 has no long row.
C27_WideAndLongAgree ==
    Returned(Long) =>
        /\ WideOfCall.error = ""
        /\ \A n \in 1..Len(result.rows) :
              \E m \in 1..Len(WideOfCall.rows) :
                  SameCell(result.rows[n], WideOfCall.rows[m])
        /\ \A m \in 1..Len(WideOfCall.rows) :
              \A status \in {"Canceled", "Not canceled"} :
                  LET wide_row == WideOfCall.rows[m]
                  IN  (/\ WideCountColumn(status) \in DOMAIN wide_row
                       /\ wide_row[WideCountColumn(status)] = 0)
                      => ~ \E n \in 1..Len(result.rows) :
                              /\ ShownKey(result.rows[n], call.groupby_cols)
                                    = ShownKey(wide_row, call.groupby_cols)
                              /\ result.rows[n]["Status"] = status

Segment == "generate_segment_summary_csv"

\* C28: after the initial cleaning every record has is_canceled 0 or 1 and a
\* Status of 'Canceled' or 'Not canceled', so that in every group of the
\* segment summary canceled_bookings is the number of canceled records,
\* not_canceled_bookings the number of the others, neither is negative and
\* they add up to total_bookings.
C28_StatusBinary ==
    /\ "is_canceled" \in defined =>
          \A i \in 1..Len(df) :
              /\ df[i]["is_canceled"] \in {0, 1}
              /\ df[i]["Status"] \in {"Canceled", "Not canceled"}
    /\ Returned(Segment) =>
          \A n \in 1..Len(result.rows) :
              LET row == result.rows[n]
                  k == KeyOf(row, call.groupby_cols)
              IN  /\ row["canceled_bookings"] >= 0
                  /\ row["not_canceled_bookings"] >= 0
                  /\ row["canceled_bookings"] + row["not_canceled_bookings"]
                        = row["total_bookings"]
                  /\ row["canceled_bookings"]
                        = Cardinality(RecordsWith(call.groupby_cols, k, "Canceled"))
                  /\ row["not_canceled_bookings"]
                        = Cardinality(RecordsWith(call.groupby_cols, k, "Not canceled"))

\* The sum of the cells of a row of a pivot.
RowSum(row) ==
    LET RECURSIVE SumTo(_)
        SumTo(n) == IF n = 0 THEN 0
                    ELSE row.cells[result.labels[n]] + SumTo(n - 1)
    IN  SumTo(Len(result.labels))

\* C29: in every bookings pivot (daily, weekly, timeline) the cells of a row
\* add up to the number of records with a valid date that have the row's
\* key, and all the cells of the table add up to the number of records with
\* a valid date of the dataset the table was built from.
C29_PivotCellsSumToRecords ==
    (call.fn \in PivotFns /\ result.error = "") =>
        /\ \A n \in 1..Len(result.rows) :
              RowSum(result.rows[n])
                 = Cardinality({i \in 1..Len(PivotSource) :
                                   PivotKey(PivotSource[i]) = result.rows[n].key})
        /\ LET RECURSIVE SumTo(_)
               SumTo(n) == IF n = 0 THEN 0
                           ELSE RowSum(result.rows[n]) + SumTo(n - 1)
           IN  SumTo(Len(result.rows)) = Len(PivotSource)

\* The table timeline_1 hands to combine_groupby_columns.
LabelInput == format_week_columns(BookingsPivot(df, <<"hotel", "origin">>, "week"))

\* C30: combine_groupby_columns gives different Labels to rows whose
\* grouping values differ in a column, so the table has as many distinct
\* Labels as its input has distinct group keys, and it keeps only the column
\* Label followed by the date columns in the order of the input.
C30_DistinctLabels ==
    (call.fn = "timeline_1" /\ result.error = "") =>
        /\ \A n, m \in 1..Len(LabelInput.rows) :
              LabelInput.rows[n].key # LabelInput.rows[m].key
                 => result.rows[n].key # result.rows[m].key
        /\ Cardinality({result.rows[n].key : n \in 1..Len(result.rows)})
              = Cardinality({LabelInput.rows[n].key : n \in 1..Len(LabelInput.rows)})
        /\ result.columns = <<"Label">>
        /\ result.labels = LabelInput.labels

====
